---- MODULE Spec2Model ----
(***************************************************************************)
(* A model of the linkzest URL shortener back end: the link and folder     *)
(* collections, the request handlers that read and write them, and the     *)
(* public redirect handlers.                                               *)
(*                                                                         *)
(* Strings are sequences of one-character strings, so that case folding,   *)
(* trimming and the regular expressions the handlers build from request    *)
(* text are computed, not assumed.  ObjectIds are positive integers handed *)
(* out by counters and never reused; 0 stands for null.  Dates are values  *)
(* of a logical clock that starts at 1; 0 stands for null.  A link's title *)
(* and a folder's description are free text no handler branches on, and    *)
(* are left out of the records.                                            *)
(***************************************************************************)
EXTENDS Integers, Sequences, FiniteSets, TLC

(***************************************************************************)
(* Bounds of the model.                                                    *)
(***************************************************************************)
MaxLinks == 2

MaxFolders == 2

MaxTime == 3

MaxVisits == 1

\* The links SpecRedirect stores.
MaxRedirectLinks == 1

\* The requests that may be suspended at the same time.
MaxInflight == 2

\* The folders SpecOwner stores.
MaxOwnerFolders == 1

(***************************************************************************)
(* Program constants.                                                      *)
(***************************************************************************)
NanoLen == 8

MinCustomIdLen == 3

MaxCustomIdLen == 20

MaxLegacyCustomIdLen == 8

MinFolderNameLen == 2

MaxFolderNameLen == 50

NoFolder == 0

NullDate == 0

Users == {"u1", "u2"}

(***************************************************************************)
(* Text.                                                                   *)
(***************************************************************************)
LowerLetters == {"a", "b"}

UpperLetters == {"A", "B"}

Digits == {"1"}

\* String.prototype.toLowerCase on one character.
ToLowerChar(c) ==
    CASE c = "A" -> "a"
      [] c = "B" -> "b"
      [] OTHER -> c

\* String.prototype.toLowerCase.
ToLowerCase(s) == [i \in 1..Len(s) |-> ToLowerChar(s[i])]

RECURSIVE TrimStart(_)
TrimStart(s) ==
    IF s # <<>> /\ Head(s) = " " THEN TrimStart(Tail(s)) ELSE s

RECURSIVE TrimEnd(_)
TrimEnd(s) ==
    IF s # <<>> /\ s[Len(s)] = " " THEN TrimEnd(SubSeq(s, 1, Len(s) - 1)) ELSE s

\* String.prototype.trim.
Trim(s) == TrimEnd(TrimStart(s))

\* The character class [a-zA-Z0-9_-] of the custom short ID pattern.
IsIdChar(c) == c \in LowerLetters \cup UpperLetters \cup Digits \cup {"_", "-"}

\* /^[a-zA-Z0-9_-]{3,20}$/.test(customShortId)
IsValidCustomId(s) ==
    /\ Len(s) >= MinCustomIdLen
    /\ Len(s) <= MaxCustomIdLen
    /\ \A i \in 1..Len(s) : IsIdChar(s[i])

\* /^[a-zA-Z0-9_-]{3,8}$/.test(customShortId), the mode-based generation.
IsValidLegacyCustomId(s) ==
    /\ Len(s) >= MinCustomIdLen
    /\ Len(s) <= MaxLegacyCustomIdLen
    /\ \A i \in 1..Len(s) : IsIdChar(s[i])

(***************************************************************************)
(* new RegExp(`^${text}$`, "i"): the request text is pasted into the       *)
(* pattern unescaped, so "+" is the one-or-more quantifier on the atom     *)
(* before it and "." matches any character.  The constructor throws        *)
(* ("Nothing to repeat") when a quantifier has no atom to apply to.        *)
(***************************************************************************)
RegExpCompiles(p) ==
    \A i \in 1..Len(p) :
        p[i] = "+" => (i > 1 /\ p[i - 1] # "+")

\* One pattern atom against one character of the subject, under the i flag.
AtomMatches(a, c) ==
    IF a = "." THEN TRUE ELSE ToLowerChar(a) = ToLowerChar(c)

RECURSIVE RegExpMatches(_, _)
\* Whether the subject t matches ^p$ with the i flag.
RegExpMatches(p, t) ==
    IF p = <<>> THEN t = <<>>
    ELSE IF Len(p) >= 2 /\ p[2] = "+"
    THEN \E k \in 1..Len(t) :
            /\ \A i \in 1..k : AtomMatches(p[1], t[i])
            /\ RegExpMatches(SubSeq(p, 3, Len(p)), SubSeq(t, k + 1, Len(t)))
    ELSE /\ t # <<>>
         /\ AtomMatches(p[1], t[1])
         /\ RegExpMatches(Tail(p), Tail(t))

(***************************************************************************)
(* Destination URLs are sequences of tokens: an optional scheme token, a   *)
(* host token, and blanks.                                                 *)
(***************************************************************************)
Schemes == {"http://", "https://", "ftp://"}

Hosts == {"example.com"}

\* /^[a-zA-Z][a-zA-Z\d+\-.]*:\/\//.test(trimmedURL)
HasScheme(s) == s # <<>> /\ s[1] \in Schemes

\* The step with the scheme of plain HTTP.
NormalizeURLPlainHttp(s) == IF HasScheme(s) THEN s ELSE <<"http://">> \o s

\* The "add protocol if missing" step of create and edit.
NormalizeURL(s) == IF HasScheme(s) THEN s ELSE <<"https://">> \o s

\* new globalThis.URL(normalizedURL) does not throw.
ParsesAsURL(s) == Len(s) = 2 /\ s[1] \in Schemes /\ s[2] \in Hosts

\* isValidURL of the redirect controllers: parses, and is http: or https:.
IsValidURL(s) == ParsesAsURL(s) /\ s[1] \in {"http://", "https://"}

(***************************************************************************)
(* Request values that are absent (undefined) or unparsable.               *)
(***************************************************************************)
Absent == -1

InvalidDate == -2

\* Boolean(isActive) / the schema's Boolean cast, on the values the model sends.
ToBoolean(x) == x = "true"

(***************************************************************************)
(* Visit documents.  Of a visitHistory document the model keeps the fields *)
(* two of the charts breakdowns group by: deviceType, which the redirect   *)
(* handler parses from the User-Agent header, and country, which it looks  *)
(* up from the visitor's address (null when the lookup finds nothing).     *)
(* city and referrer are stored, grouped and formatted like country.       *)
(***************************************************************************)
DeviceTypes == {"desktop", "mobile", "bot"}

Countries == {"India", "null"}

VisitKinds == [deviceType : DeviceTypes, country : Countries]

\* No document of any kind.
NoVisits == [k \in VisitKinds |-> 0]

RECURSIVE SumOver(_, _)
\* The sum of f over the set S.
SumOver(f, S) ==
    IF S = {} THEN 0
    ELSE LET x == CHOOSE y \in S : TRUE IN f[x] + SumOver(f, S \ {x})

\* VisitHistory.countDocuments({ urlId }) on the documents v of one link.
CountVisits(v) == SumOver(v, VisitKinds)

(***************************************************************************)
(* Tokens and cookies.  A token is what jwt.sign returns: the secret it is *)
(* signed with, the user of its payload and its expiry; NoToken is a       *)
(* cookie that is not set.                                                 *)
(***************************************************************************)
NoToken == [secret |-> "none", id |-> "none", exp |-> 0]

NoCookies == [accessToken |-> NoToken, refreshToken |-> NoToken]

(***************************************************************************)
(* State.                                                                  *)
(***************************************************************************)
VARIABLES
    links,         \* the url collection: a set of link documents
    folders,       \* the folder collection: a set of folder documents
    visits,        \* visits[i][k]: the visitHistory documents of kind k with urlId = i
    now,           \* the clock
    nextLinkId,    \* the next ObjectId of the url collection
    nextFolderId,  \* the next ObjectId of the folder collection
    last,          \* the last completed request and its response
    inflight,      \* requests suspended between two database calls
    users,         \* the user collection: a set of user documents
    cookies        \* cookies[c]: the accessToken and refreshToken cookies of client c

vars == <<links, folders, visits, now, nextLinkId, nextFolderId, last, inflight,
          users, cookies>>

\* The record of a completed request: the handler, the caller, the HTTP status,
\* the request's parameters, what the handler reported, and a bit that flips with
\* every request.
Response(op, user, status, arg, out) ==
    [op |-> op, user |-> user, status |-> status, arg |-> arg, out |-> out,
     seq |-> 1 - last.seq]

Init ==
    /\ links = {}
    /\ folders = {}
    /\ visits = [i \in 1..MaxLinks |-> NoVisits]
    /\ now = 1
    /\ nextLinkId = 1
    /\ nextFolderId = 1
    /\ last = [op |-> "none", user |-> "none", status |-> 0, arg |-> [x |-> 0],
               out |-> [x |-> 0], seq |-> 0]
    /\ inflight = {}
    /\ users = {}
    /\ cookies = [c \in Users |-> NoCookies]

\* Time passes between requests.
Tick ==
    /\ now < MaxTime
    /\ now' = now + 1
    /\ UNCHANGED <<links, folders, visits, nextLinkId, nextFolderId, last, inflight,
                   users, cookies>>

(***************************************************************************)
(* Queries.                                                                *)
(***************************************************************************)
\* URL.findOne({ shortId: { $regex: new RegExp(`^${id}$`, "i") } })
FindByShortIdRegex(ls, id) == {l \in ls : RegExpMatches(id, l.shortId)}

\* URL.exists({ shortId: generatedId })
ExistsShortId(ls, id) == \E l \in ls : l.shortId = id

\* The filter without its createdBy clause.
FindLinkOfAnyOwner(ls, id, u, deleted) ==
    {l \in ls : l.shortId = id /\ l.isDeleted = deleted}

\* URL.findOne({ shortId, createdBy: userId, isDeleted: deleted })
FindOwnedLink(ls, id, u, deleted) ==
    {l \in ls : l.shortId = id /\ l.createdBy = u /\ l.isDeleted = deleted}

\* Folder.findOne({ _id: folderId, createdBy: userId, isDeleted: deleted })
FindOwnedFolder(fs, fid, u, deleted) ==
    {f \in fs : f.id = fid /\ f.createdBy = u /\ f.isDeleted = deleted}

\* The unique index on shortId (url.model.js): an insert or update that would
\* store a second document with the same shortId fails with a duplicate key error.
ViolatesUniqueIndex(ls, doc) ==
    \E l \in ls : l.id # doc.id /\ l.shortId = doc.shortId

\* The identifiers nanoid can draw: a sample of its NanoLen-character strings.
RECURSIVE Repeat(_, _)
\* The string of n characters c.
Repeat(c, n) == IF n = 0 THEN <<>> ELSE <<c>> \o Repeat(c, n - 1)

RandomIds == {Repeat(c, NanoLen) : c \in {"a", "A"}}

\* The draws a create request may end with: none when it names a custom short ID.
Draws(req) == IF req.customShortId = <<>> THEN RandomIds ELSE {<<>>}

(***************************************************************************)
(* POST /api/url: handleCreateShortURL.  A request is a record             *)
(* [redirectURL, customShortId, folderId, isActive, expirationDate,        *)
(* neverExpire]; <<>> is a missing string, NoFolder a missing folderId,    *)
(* NullDate a missing expirationDate.                                      *)
(***************************************************************************)
CreateRequests(dests, ids, fids, actives, dates) ==
    [redirectURL : dests, customShortId : ids, folderId : fids,
     isActive : actives, expirationDate : dates, neverExpire : {FALSE}]

\* Validation and identifier allocation: the status of the rejection, or 0.
CreateIdStatus(ls, req) ==
    IF Trim(req.redirectURL) = <<>> THEN 400
    ELSE IF ~ParsesAsURL(NormalizeURL(Trim(req.redirectURL))) THEN 400
    ELSE IF req.customShortId = <<>> THEN 0
    ELSE IF ~IsValidCustomId(req.customShortId) THEN 400
    ELSE IF FindByShortIdRegex(ls, req.customShortId) # {} THEN 409
    ELSE 0

\* The checks with an expiration date equal to the current instant accepted.
CreateExpiryStatusAllowingNow(fs, t, u, req) ==
    IF req.folderId # NoFolder /\ FindOwnedFolder(fs, req.folderId, u, FALSE) = {}
    THEN 404
    ELSE IF req.neverExpire \/ req.expirationDate = NullDate THEN 0
    ELSE IF req.expirationDate = InvalidDate THEN 400
    ELSE IF req.expirationDate < t THEN 400
    ELSE 0

\* Folder and expiration checks: the status of the rejection, or 0.
CreateExpiryStatus(fs, t, u, req) ==
    IF req.folderId # NoFolder /\ FindOwnedFolder(fs, req.folderId, u, FALSE) = {}
    THEN 404
    ELSE IF req.neverExpire \/ req.expirationDate = NullDate THEN 0
    ELSE IF req.expirationDate = InvalidDate THEN 400
    ELSE IF req.expirationDate <= t THEN 400
    ELSE 0

\* The document URL.create is given.
NewLinkDoc(id, u, req, finalShortId) ==
    [id |-> id,
     shortId |-> finalShortId,
     redirectURL |-> NormalizeURL(Trim(req.redirectURL)),
     createdBy |-> u,
     folderId |-> req.folderId,
     isActive |-> (req.isActive = "absent" \/ ToBoolean(req.isActive)),
     expirationDate |-> IF req.neverExpire THEN NullDate ELSE req.expirationDate,
     isDeleted |-> FALSE,
     deletedAt |-> NullDate]

\* The whole handler run without interruption.  rid is the identifier the
\* generateUniqueShortId loop ends with: a draw that no stored link has.
CreateShortURL(u, req, rid) ==
    LET s1 == CreateIdStatus(links, req)
        s2 == IF s1 # 0 THEN s1 ELSE CreateExpiryStatus(folders, now, u, req)
        final == IF req.customShortId # <<>> THEN req.customShortId ELSE rid
        doc == NewLinkDoc(nextLinkId, u, req, final)
        status == IF s2 # 0 THEN s2
                  ELSE IF ViolatesUniqueIndex(links, doc) THEN 500
                  ELSE 201
    IN  /\ (s1 = 0 /\ req.customShortId = <<>>) =>
                (rid \in RandomIds /\ ~ExistsShortId(links, rid))
        /\ status = 201 => nextLinkId <= MaxLinks
        /\ links' = IF status = 201 THEN links \cup {doc} ELSE links
        /\ nextLinkId' = IF status = 201 THEN nextLinkId + 1 ELSE nextLinkId
        /\ last' = Response("createShortURL", u, status, req,
                            [id |-> IF status = 201 THEN doc.id ELSE 0])
        /\ UNCHANGED <<folders, visits, now, nextFolderId, inflight, users, cookies>>

(***************************************************************************)
(* PATCH /api/url/:shortId/edit: handleEditUrl.  A request is a record     *)
(* [redirectURL, newShortId, folderId, isActive, expirationDate,           *)
(* neverExpire]; folderId and expirationDate may be Absent (undefined).    *)
(***************************************************************************)
EditRequests(dests, ids, fids, actives, dates) ==
    [redirectURL : dests, newShortId : ids, folderId : fids,
     isActive : actives, expirationDate : dates, neverExpire : {FALSE}]

\* The status of the first check of the handler that rejects, or 200.
EditStatus(ls, fs, u, shortId, req) ==
    IF FindOwnedLink(ls, shortId, u, FALSE) = {} THEN 404
    ELSE IF req.redirectURL # <<>>
            /\ ~ParsesAsURL(NormalizeURL(Trim(req.redirectURL))) THEN 400
    ELSE IF req.newShortId # <<>> /\ req.newShortId # shortId
            /\ ~IsValidCustomId(req.newShortId) THEN 400
    ELSE IF req.newShortId # <<>> /\ req.newShortId # shortId
            /\ FindByShortIdRegex(ls, req.newShortId) # {} THEN 409
    ELSE IF req.folderId \notin {Absent, NoFolder}
            /\ FindOwnedFolder(fs, req.folderId, u, FALSE) = {} THEN 404
    ELSE IF ~req.neverExpire /\ req.expirationDate = InvalidDate THEN 400
    ELSE 200

\* urlDoc after every field the request carries has been applied.
EditedDoc(doc, shortId, req) ==
    [doc EXCEPT
        !.redirectURL = IF req.redirectURL # <<>>
                        THEN NormalizeURL(Trim(req.redirectURL)) ELSE @,
        !.shortId = IF req.newShortId # <<>> /\ req.newShortId # shortId
                    THEN req.newShortId ELSE @,
        !.folderId = IF req.folderId = Absent THEN @ ELSE req.folderId,
        !.isActive = IF req.isActive = "absent" THEN @ ELSE ToBoolean(req.isActive),
        !.expirationDate = IF req.neverExpire THEN NullDate
                           ELSE IF req.expirationDate = Absent THEN @
                           ELSE req.expirationDate]

EditUrl(u, shortId, req) ==
    LET s == EditStatus(links, folders, u, shortId, req)
        found == FindOwnedLink(links, shortId, u, FALSE)
        doc == CHOOSE l \in found : TRUE
        new == EditedDoc(doc, shortId, req)
        status == IF s # 200 THEN s
                  ELSE IF ViolatesUniqueIndex(links, new) THEN 500
                  ELSE 200
    IN  /\ links' = IF status = 200 THEN (links \ {doc}) \cup {new} ELSE links
        /\ last' = Response("editUrl", u, status, [shortId |-> shortId, body |-> req],
                            [id |-> IF found = {} THEN 0 ELSE doc.id])
        /\ UNCHANGED <<folders, visits, now, nextLinkId, nextFolderId, inflight,
                       users, cookies>>

(***************************************************************************)
(* PATCH /api/url/:shortId/status: handleToggleUrlStatus.                  *)
(***************************************************************************)
ToggleUrlStatus(u, shortId, isActive) ==
    LET found == FindOwnedLink(links, shortId, u, FALSE)
        doc == CHOOSE l \in found : TRUE
        status == IF isActive = "absent" THEN 400
                  ELSE IF found = {} THEN 404
                  ELSE 200
    IN  /\ links' = IF status = 200
                    THEN (links \ {doc}) \cup {[doc EXCEPT !.isActive = ToBoolean(isActive)]}
                    ELSE links
        /\ last' = Response("toggleUrlStatus", u, status,
                            [shortId |-> shortId, isActive |-> isActive],
                            [id |-> IF status = 200 THEN doc.id ELSE 0])
        /\ UNCHANGED <<folders, visits, now, nextLinkId, nextFolderId, inflight,
                       users, cookies>>

\* A soft-delete whose lookup has no isDeleted clause.
SoftDeleteUrlAnyState(u, shortId) ==
    LET found == {l \in links : l.shortId = shortId /\ l.createdBy = u}
        doc == CHOOSE l \in found : TRUE
        status == IF found = {} THEN 404 ELSE 200
    IN  /\ links' = IF status = 200
                    THEN (links \ {doc})
                         \cup {[doc EXCEPT !.isDeleted = TRUE, !.deletedAt = now]}
                    ELSE links
        /\ last' = Response("softDeleteUrl", u, status, [shortId |-> shortId],
                            [id |-> IF status = 200 THEN doc.id ELSE 0])
        /\ UNCHANGED <<folders, visits, now, nextLinkId, nextFolderId, inflight,
                       users, cookies>>

(***************************************************************************)
(* DELETE /api/url/:shortId: handleSoftDeleteUrl.                          *)
(***************************************************************************)
SoftDeleteUrl(u, shortId) ==
    LET found == FindOwnedLink(links, shortId, u, FALSE)
        doc == CHOOSE l \in found : TRUE
        status == IF found = {} THEN 404 ELSE 200
    IN  /\ links' = IF status = 200
                    THEN (links \ {doc})
                         \cup {[doc EXCEPT !.isDeleted = TRUE, !.deletedAt = now]}
                    ELSE links
        /\ last' = Response("softDeleteUrl", u, status, [shortId |-> shortId],
                            [id |-> IF status = 200 THEN doc.id ELSE 0])
        /\ UNCHANGED <<folders, visits, now, nextLinkId, nextFolderId, inflight,
                       users, cookies>>

\* A restore that looks the link's folder up again and drops the reference
\* when the folder is no longer an active folder of the user.
RestoreUrlRevalidatingFolder(u, shortId) ==
    LET found == FindOwnedLink(links, shortId, u, TRUE)
        doc == CHOOSE l \in found : TRUE
        status == IF found = {} THEN 404 ELSE 200
        kept == IF FindOwnedFolder(folders, doc.folderId, u, FALSE) = {}
                THEN NoFolder ELSE doc.folderId
    IN  /\ links' = IF status = 200
                    THEN (links \ {doc})
                         \cup {[doc EXCEPT !.isDeleted = FALSE, !.deletedAt = NullDate,
                                           !.folderId = kept]}
                    ELSE links
        /\ last' = Response("restoreUrl", u, status, [shortId |-> shortId],
                            [id |-> IF status = 200 THEN doc.id ELSE 0])
        /\ UNCHANGED <<folders, visits, now, nextLinkId, nextFolderId, inflight,
                       users, cookies>>

(***************************************************************************)
(* PATCH /api/url/:shortId/restore: handleRestoreUrl.                      *)
(***************************************************************************)
RestoreUrl(u, shortId) ==
    LET found == FindOwnedLink(links, shortId, u, TRUE)
        doc == CHOOSE l \in found : TRUE
        status == IF found = {} THEN 404 ELSE 200
    IN  /\ links' = IF status = 200
                    THEN (links \ {doc})
                         \cup {[doc EXCEPT !.isDeleted = FALSE, !.deletedAt = NullDate]}
                    ELSE links
        /\ last' = Response("restoreUrl", u, status, [shortId |-> shortId],
                            [id |-> IF status = 200 THEN doc.id ELSE 0])
        /\ UNCHANGED <<folders, visits, now, nextLinkId, nextFolderId, inflight,
                       users, cookies>>

\* A permanent delete that also removes the link's visitHistory documents.
PermanentDeleteUrlWithVisits(u, shortId) ==
    LET found == FindOwnedLink(links, shortId, u, TRUE)
        doc == CHOOSE l \in found : TRUE
        status == IF found = {} THEN 404 ELSE 200
    IN  /\ links' = IF status = 200 THEN links \ {doc} ELSE links
        /\ visits' = IF status = 200 THEN [visits EXCEPT ![doc.id] = NoVisits] ELSE visits
        /\ last' = Response("permanentDeleteUrl", u, status, [shortId |-> shortId],
                            [id |-> IF status = 200 THEN doc.id ELSE 0])
        /\ UNCHANGED <<folders, now, nextLinkId, nextFolderId, inflight, users, cookies>>

(***************************************************************************)
(* DELETE /api/url/:shortId/permanent: handlePermanentDeleteUrl.           *)
(***************************************************************************)
PermanentDeleteUrl(u, shortId) ==
    LET found == FindOwnedLink(links, shortId, u, TRUE)
        doc == CHOOSE l \in found : TRUE
        status == IF found = {} THEN 404 ELSE 200
    IN  /\ links' = IF status = 200 THEN links \ {doc} ELSE links
        /\ last' = Response("permanentDeleteUrl", u, status, [shortId |-> shortId],
                            [id |-> IF status = 200 THEN doc.id ELSE 0])
        /\ UNCHANGED <<folders, visits, now, nextLinkId, nextFolderId, inflight,
                       users, cookies>>

(***************************************************************************)
(* GET /r/:shortId: handleRedirect, the dispatcher with one branch per     *)
(* link state.  saveOk is whether visitDoc.save() succeeds; its failure is *)
(* caught and logged.                                                      *)
(***************************************************************************)
\* URL.findOne({ shortId: shortId.trim(), isDeleted: false })
FindRedirectTarget(ls, shortId) ==
    {l \in ls : l.shortId = Trim(shortId) /\ ~l.isDeleted}

\* urlDoc.expirationDate && new Date(urlDoc.expirationDate) < new Date()
IsExpired(l, t) == l.expirationDate # NullDate /\ l.expirationDate < t

RedirectStatus(ls, t, shortId) ==
    LET found == FindRedirectTarget(ls, shortId)
        doc == CHOOSE l \in found : TRUE
    IN  IF Trim(shortId) = <<>> THEN 400
        ELSE IF found = {} THEN 404
        ELSE IF ~doc.isActive THEN 410
        ELSE IF IsExpired(doc, t) THEN 410
        ELSE IF ~IsValidURL(doc.redirectURL) THEN 400
        ELSE 302

Redirect(shortId, visitor, saveOk) ==
    LET found == FindRedirectTarget(links, shortId)
        doc == CHOOSE l \in found : TRUE
        status == RedirectStatus(links, now, shortId)
        saved == status = 302 /\ saveOk
    IN  /\ saved => CountVisits(visits[doc.id]) < MaxVisits
        /\ visits' = IF saved THEN [visits EXCEPT ![doc.id][visitor] = @ + 1] ELSE visits
        /\ last' = Response("redirect", "anyone", status, [shortId |-> shortId],
                            [id |-> IF found = {} THEN 0 ELSE doc.id,
                             location |-> IF status = 302 THEN doc.redirectURL ELSE <<>>])
        /\ UNCHANGED <<links, folders, now, nextLinkId, nextFolderId, inflight,
                       users, cookies>>

(***************************************************************************)
(* GET /r/:shortId: handleRedirect of redirect.controller.js, which finds  *)
(* only links that are redirectable and saves the visit before it          *)
(* validates the destination.                                              *)
(***************************************************************************)
\* URL.findOne({ shortId, isDeleted: false, isActive: true,
\*               $or: [{ expirationDate: null }, { expirationDate: { $gt: now } }] })
FindRedirectableTarget(ls, t, shortId) ==
    {l \in ls : /\ l.shortId = Trim(shortId)
                /\ ~l.isDeleted
                /\ l.isActive
                /\ (l.expirationDate = NullDate \/ l.expirationDate > t)}

RedirectFilteredStatus(ls, t, shortId) ==
    LET found == FindRedirectableTarget(ls, t, shortId)
        doc == CHOOSE l \in found : TRUE
    IN  IF Trim(shortId) = <<>> THEN 400
        ELSE IF found = {} THEN 404
        ELSE IF ~IsValidURL(doc.redirectURL) THEN 400
        ELSE 301

RedirectFiltered(shortId, visitor, saveOk) ==
    LET found == FindRedirectableTarget(links, now, shortId)
        doc == CHOOSE l \in found : TRUE
        status == RedirectFilteredStatus(links, now, shortId)
        saved == Trim(shortId) # <<>> /\ found # {} /\ saveOk
    IN  /\ saved => CountVisits(visits[doc.id]) < MaxVisits
        /\ visits' = IF saved THEN [visits EXCEPT ![doc.id][visitor] = @ + 1] ELSE visits
        /\ last' = Response("redirectFiltered", "anyone", status, [shortId |-> shortId],
                            [id |-> IF found = {} THEN 0 ELSE doc.id,
                             location |-> IF status = 301 THEN doc.redirectURL ELSE <<>>])
        /\ UNCHANGED <<links, folders, now, nextLinkId, nextFolderId, inflight,
                       users, cookies>>

(***************************************************************************)
(* The recycle bin: PATCH /api/recycle-bin/restore (handleRestoreItem) and *)
(* DELETE /api/recycle-bin/permanent (handlePermanentDeleteItem), for      *)
(* itemType "url".  itemId 0 is a missing itemId.                          *)
(***************************************************************************)
\* URL.findOne({ _id: itemId, createdBy: userId, isDeleted: true })
FindDeletedLinkById(ls, itemId, u) ==
    {l \in ls : l.id = itemId /\ l.createdBy = u /\ l.isDeleted}

RestoreItemUrl(u, itemId) ==
    LET found == FindDeletedLinkById(links, itemId, u)
        doc == CHOOSE l \in found : TRUE
        status == IF itemId = 0 THEN 400 ELSE IF found = {} THEN 404 ELSE 200
    IN  /\ links' = IF status = 200
                    THEN (links \ {doc})
                         \cup {[doc EXCEPT !.isDeleted = FALSE, !.deletedAt = NullDate]}
                    ELSE links
        /\ last' = Response("restoreItemUrl", u, status, [itemId |-> itemId],
                            [id |-> IF status = 200 THEN doc.id ELSE 0])
        /\ UNCHANGED <<folders, visits, now, nextLinkId, nextFolderId, inflight,
                       users, cookies>>

PermanentDeleteItemUrl(u, itemId) ==
    LET found == FindDeletedLinkById(links, itemId, u)
        doc == CHOOSE l \in found : TRUE
        status == IF itemId = 0 THEN 400 ELSE IF found = {} THEN 404 ELSE 200
    IN  /\ links' = IF status = 200 THEN links \ {doc} ELSE links
        /\ last' = Response("permanentDeleteItemUrl", u, status, [itemId |-> itemId],
                            [id |-> IF status = 200 THEN doc.id ELSE 0])
        /\ UNCHANGED <<folders, visits, now, nextLinkId, nextFolderId, inflight,
                       users, cookies>>

(***************************************************************************)
(* The mode-based generation of the link handlers (url.controller.js,      *)
(* lines 1-286): handleGenerateNewShortURL, handleEditUrl with the         *)
(* folder's urls list, and handleDeleteUrl with mode "trash" or            *)
(* "permanent".                                                            *)
(***************************************************************************)
\* /^[a-zA-Z]+:\/\//: the schemes of the model are all letters.
NormalizeURLLegacy(s) == IF HasScheme(s) THEN s ELSE <<"https://">> \o s

\* In this file URL names the mongoose model, so "new URL(normalizedURL)" builds a
\* document from a string; ctorThrows is whether the installed mongoose rejects that.
GenerateIdStatus(ls, req, ctorThrows) ==
    IF req.redirectURL = <<>> THEN 400
    ELSE IF ctorThrows THEN 400
    ELSE IF req.customShortId = <<>> THEN 0
    ELSE IF ~IsValidLegacyCustomId(req.customShortId) THEN 400
    ELSE IF FindByShortIdRegex(ls, req.customShortId) # {} THEN 400
    ELSE 0

GenerateNewShortURL(u, req, rid, ctorThrows) ==
    LET s1 == GenerateIdStatus(links, req, ctorThrows)
        final == IF req.customShortId # <<>> THEN req.customShortId ELSE rid
        doc == [id |-> nextLinkId,
                shortId |-> final,
                redirectURL |-> NormalizeURLLegacy(req.redirectURL),
                createdBy |-> u,
                folderId |-> NoFolder,
                isActive |-> TRUE,
                expirationDate |-> NullDate,
                isDeleted |-> FALSE,
                deletedAt |-> NullDate]
        status == IF s1 # 0 THEN s1
                  ELSE IF ViolatesUniqueIndex(links, doc) THEN 500
                  ELSE 201
    IN  /\ (s1 = 0 /\ req.customShortId = <<>>) =>
                (rid \in RandomIds /\ ~ExistsShortId(links, rid))
        /\ status = 201 => nextLinkId <= MaxLinks
        /\ links' = IF status = 201 THEN links \cup {doc} ELSE links
        /\ nextLinkId' = IF status = 201 THEN nextLinkId + 1 ELSE nextLinkId
        /\ last' = Response("generateNewShortURL", u, status, req,
                            [id |-> IF status = 201 THEN doc.id ELSE 0])
        /\ UNCHANGED <<folders, visits, now, nextFolderId, inflight, users, cookies>>

\* URL.findOne({ shortId, createdBy: userId })
FindOwnedLinkAnyState(ls, id, u) ==
    {l \in ls : l.shortId = id /\ l.createdBy = u}

\* Folder.findOne({ _id: folderId, createdBy: userId })
FindOwnedFolderAnyState(fs, fid, u) ==
    {f \in fs : f.id = fid /\ f.createdBy = u}

\* Folder.updateOne({ _id: fid, createdBy: u }, { $pull: { urls: linkId } })
PullUrl(fs, fid, u, linkId) ==
    {IF f.id = fid /\ f.createdBy = u THEN [f EXCEPT !.urls = @ \ {linkId}] ELSE f
        : f \in fs}

\* Folder.updateOne({ _id: fid, createdBy: u }, { $addToSet: { urls: linkId } })
AddUrl(fs, fid, u, linkId) ==
    {IF f.id = fid /\ f.createdBy = u THEN [f EXCEPT !.urls = @ \cup {linkId}] ELSE f
        : f \in fs}

\* A request is [newDestinationUrl, newCustomShortID, expirationDate, folderId].
EditLegacyStatus(ls, fs, u, shortId, req) ==
    IF FindOwnedLinkAnyState(ls, shortId, u) = {} THEN 404
    ELSE IF req.newCustomShortID # <<>> /\ req.newCustomShortID # shortId
            /\ ~IsValidLegacyCustomId(req.newCustomShortID) THEN 400
    ELSE IF req.newCustomShortID # <<>> /\ req.newCustomShortID # shortId
            /\ ExistsShortId(ls, req.newCustomShortID) THEN 400
    ELSE IF req.expirationDate = InvalidDate THEN 400
    ELSE IF req.folderId \notin {Absent, NoFolder}
            /\ FindOwnedFolderAnyState(fs, req.folderId, u) = {} THEN 404
    ELSE 200

EditUrlLegacy(u, shortId, req) ==
    LET s == EditLegacyStatus(links, folders, u, shortId, req)
        found == FindOwnedLinkAnyState(links, shortId, u)
        doc == CHOOSE l \in found : TRUE
        \* the folder section is reached when no earlier check has returned
        inFolderSection ==
            /\ found # {}
            /\ s \in {200, 404}
            /\ req.folderId # Absent
        pulled == IF inFolderSection /\ doc.folderId # NoFolder
                  THEN PullUrl(folders, doc.folderId, u, doc.id)
                  ELSE folders
        added == IF s = 200 /\ req.folderId \notin {Absent, NoFolder}
                 THEN AddUrl(pulled, req.folderId, u, doc.id)
                 ELSE pulled
        new == [doc EXCEPT
                    !.redirectURL = IF req.newDestinationUrl # <<>>
                                    THEN req.newDestinationUrl ELSE @,
                    !.shortId = IF req.newCustomShortID # <<>>
                                   /\ req.newCustomShortID # shortId
                                THEN req.newCustomShortID ELSE @,
                    !.expirationDate = IF req.expirationDate \in {Absent, NullDate}
                                       THEN @ ELSE req.expirationDate,
                    !.folderId = IF req.folderId = Absent THEN @ ELSE req.folderId]
        status == IF s # 200 THEN s
                  ELSE IF ViolatesUniqueIndex(links, new) THEN 500
                  ELSE 200
    IN  /\ links' = IF status = 200 THEN (links \ {doc}) \cup {new} ELSE links
        /\ folders' = added
        /\ last' = Response("editUrlLegacy", u, status,
                            [shortId |-> shortId, body |-> req],
                            [id |-> IF found = {} THEN 0 ELSE doc.id])
        /\ UNCHANGED <<visits, now, nextLinkId, nextFolderId, inflight, users, cookies>>

\* DELETE /api/url/:shortId with body { mode }.
DeleteUrl(u, shortId, mode) ==
    LET found == FindOwnedLinkAnyState(links, shortId, u)
        doc == CHOOSE l \in found : TRUE
        status == IF mode \notin {"trash", "permanent"} THEN 400
                  ELSE IF found = {} THEN 404
                  ELSE IF mode = "trash" /\ doc.isDeleted THEN 400
                  ELSE 200
    IN  /\ links' = IF status # 200 THEN links
                    ELSE IF mode = "trash"
                    THEN (links \ {doc})
                         \cup {[doc EXCEPT !.isDeleted = TRUE, !.deletedAt = now]}
                    ELSE links \ {doc}
        /\ last' = Response("deleteUrl", u, status,
                            [shortId |-> shortId, mode |-> mode],
                            [id |-> IF found = {} \/ status = 400 THEN 0 ELSE doc.id])
        /\ UNCHANGED <<folders, visits, now, nextLinkId, nextFolderId, inflight,
                       users, cookies>>

(***************************************************************************)
(* Folders.  A folder id of 0 stands for a path parameter that is not a    *)
(* 24-digit hexadecimal ObjectId.                                          *)
(***************************************************************************)
\* Folder.findOne({ name: { $regex: new RegExp(`^${name}$`, "i") },
\*                  createdBy: userId, _id: { $ne: exceptId }, isDeleted: false })
FindFolderByNameRegex(fs, name, u, exceptId) ==
    {f \in fs : /\ RegExpMatches(name, f.name)
                /\ f.createdBy = u
                /\ f.id # exceptId
                /\ ~f.isDeleted}

\* trimmedName.length < 2 || trimmedName.length > 50
IsValidFolderName(trimmed) ==
    Len(trimmed) >= MinFolderNameLen /\ Len(trimmed) <= MaxFolderNameLen

\* The name check that create, rename and restore share: the constructor of the
\* regular expression may throw (caught: 500), a match is a conflict (409).
NameCheckStatus(fs, name, u, exceptId) ==
    IF ~RegExpCompiles(name) THEN 500
    ELSE IF FindFolderByNameRegex(fs, name, u, exceptId) # {} THEN 409
    ELSE 0

\* POST /api/folder: handleCreateFolder.
CreateFolderStatus(fs, u, name) ==
    IF Trim(name) = <<>> THEN 400
    ELSE IF ~IsValidFolderName(Trim(name)) THEN 400
    ELSE IF NameCheckStatus(fs, Trim(name), u, 0) # 0
    THEN NameCheckStatus(fs, Trim(name), u, 0)
    ELSE 201

NewFolderDoc(id, u, name) ==
    [id |-> id, name |-> Trim(name), createdBy |-> u, urls |-> {},
     isDeleted |-> FALSE, deletedAt |-> NullDate]

CreateFolder(u, name) ==
    LET status == CreateFolderStatus(folders, u, name)
        doc == NewFolderDoc(nextFolderId, u, name)
    IN  /\ status = 201 => nextFolderId <= MaxFolders
        /\ folders' = IF status = 201 THEN folders \cup {doc} ELSE folders
        /\ nextFolderId' = IF status = 201 THEN nextFolderId + 1 ELSE nextFolderId
        /\ last' = Response("createFolder", u, status, [name |-> name],
                            [id |-> IF status = 201 THEN doc.id ELSE 0])
        /\ UNCHANGED <<links, visits, now, nextLinkId, inflight, users, cookies>>

\* PATCH /api/folder/:folderId: handleEditFolder.  A request carries a name, a
\* description, or both.
EditFolderStatus(fs, u, fid, hasName, name, hasDescription) ==
    LET found == FindOwnedFolder(fs, fid, u, FALSE)
        doc == CHOOSE f \in found : TRUE
    IN  IF fid = 0 THEN 400
        ELSE IF ~hasName /\ ~hasDescription THEN 400
        ELSE IF found = {} THEN 404
        ELSE IF ~hasName THEN 200
        ELSE IF ~IsValidFolderName(Trim(name)) THEN 400
        ELSE IF ToLowerCase(Trim(name)) = ToLowerCase(doc.name) THEN 200
        ELSE IF NameCheckStatus(fs, Trim(name), u, fid) # 0
        THEN NameCheckStatus(fs, Trim(name), u, fid)
        ELSE 200

EditFolder(u, fid, hasName, name, hasDescription) ==
    LET status == EditFolderStatus(folders, u, fid, hasName, name, hasDescription)
        found == FindOwnedFolder(folders, fid, u, FALSE)
        doc == CHOOSE f \in found : TRUE
    IN  /\ folders' = IF status = 200 /\ hasName
                      THEN (folders \ {doc}) \cup {[doc EXCEPT !.name = Trim(name)]}
                      ELSE folders
        /\ last' = Response("editFolder", u, status,
                            [folderId |-> fid, hasName |-> hasName, name |-> name],
                            [id |-> IF status = 200 THEN doc.id ELSE 0])
        /\ UNCHANGED <<links, visits, now, nextLinkId, nextFolderId, inflight,
                       users, cookies>>

\* The filter without its folderId clause.
ActiveLinksOfAnyFolder(ls, fid, u) ==
    {l \in ls : l.createdBy = u /\ ~l.isDeleted}

\* The filter without its isDeleted clause.
ActiveMembersAnyState(ls, fid, u) ==
    {l \in ls : l.folderId = fid /\ l.createdBy = u}

\* URL.updateMany({ folderId, createdBy: userId, isDeleted: false }, ...): the
\* documents the filter selects.
ActiveMembers(ls, fid, u) ==
    {l \in ls : l.folderId = fid /\ l.createdBy = u /\ ~l.isDeleted}

\* The update left out: every document keeps its folderId.
KeepFolderReferences(ls, sel) == ls

\* { $set: { folderId: null } } on the documents of sel.
ClearFolder(ls, sel) ==
    {IF l \in sel THEN [l EXCEPT !.folderId = NoFolder] ELSE l : l \in ls}

\* DELETE /api/folder/:folderId: handleSoftDeleteFolder.
SoftDeleteFolder(u, fid) ==
    LET found == FindOwnedFolder(folders, fid, u, FALSE)
        doc == CHOOSE f \in found : TRUE
        status == IF fid = 0 THEN 400 ELSE IF found = {} THEN 404 ELSE 200
        sel == ActiveMembers(links, fid, u)
    IN  /\ folders' = IF status = 200
                      THEN (folders \ {doc})
                           \cup {[doc EXCEPT !.isDeleted = TRUE, !.deletedAt = now]}
                      ELSE folders
        /\ links' = IF status = 200 THEN ClearFolder(links, sel) ELSE links
        /\ last' = Response("softDeleteFolder", u, status, [folderId |-> fid],
                            [id |-> IF status = 200 THEN doc.id ELSE 0,
                             orphanedUrls |-> IF status = 200 THEN Cardinality(sel) ELSE 0])
        /\ UNCHANGED <<visits, now, nextLinkId, nextFolderId, inflight, users, cookies>>

\* PATCH /api/folder/:folderId/remove-urls: handleRemoveUrlsFromFolder.
RemoveUrlsFromFolder(u, fid, urlIds) ==
    LET found == FindOwnedFolder(folders, fid, u, FALSE)
        status == IF fid = 0 THEN 400
                  ELSE IF urlIds = {} THEN 400
                  ELSE IF 0 \in urlIds THEN 400
                  ELSE IF found = {} THEN 404
                  ELSE 200
        sel == {l \in ActiveMembers(links, fid, u) : l.id \in urlIds}
    IN  /\ links' = IF status = 200 THEN ClearFolder(links, sel) ELSE links
        /\ last' = Response("removeUrlsFromFolder", u, status,
                            [folderId |-> fid, urlIds |-> urlIds],
                            [removedCount |-> IF status = 200 THEN Cardinality(sel) ELSE 0])
        /\ UNCHANGED <<folders, visits, now, nextLinkId, nextFolderId, inflight,
                       users, cookies>>

\* The restore of a folder, shared by PATCH /api/folder/:folderId/restore
\* (handleRestoreFolder) and PATCH /api/recycle-bin/restore with itemType "folder"
\* (handleRestoreItem): the two bodies are the same but for the 400 checks.
RestoreFolderStatus(fs, u, fid) ==
    LET found == FindOwnedFolder(fs, fid, u, TRUE)
        doc == CHOOSE f \in found : TRUE
    IN  IF fid = 0 THEN 400
        ELSE IF found = {} THEN 404
        ELSE IF NameCheckStatus(fs, doc.name, u, fid) # 0
        THEN NameCheckStatus(fs, doc.name, u, fid)
        ELSE 200

RestoredFolders(fs, u, fid) ==
    LET doc == CHOOSE f \in FindOwnedFolder(fs, fid, u, TRUE) : TRUE
    IN  (fs \ {doc}) \cup {[doc EXCEPT !.isDeleted = FALSE, !.deletedAt = NullDate]}

\* A restore that also brings back the soft-deleted links that reference the
\* folder.
RestoreFolderRevivingLinks(u, fid) ==
    LET status == RestoreFolderStatus(folders, u, fid)
    IN  /\ folders' = IF status = 200 THEN RestoredFolders(folders, u, fid) ELSE folders
        /\ links' = IF status = 200
                    THEN {IF l.folderId = fid /\ l.createdBy = u /\ l.isDeleted
                          THEN [l EXCEPT !.isDeleted = FALSE, !.deletedAt = NullDate]
                          ELSE l : l \in links}
                    ELSE links
        /\ last' = Response("restoreFolder", u, status, [folderId |-> fid], [id |-> fid])
        /\ UNCHANGED <<visits, now, nextLinkId, nextFolderId, inflight, users, cookies>>

RestoreFolder(u, fid) ==
    LET status == RestoreFolderStatus(folders, u, fid)
    IN  /\ folders' = IF status = 200 THEN RestoredFolders(folders, u, fid) ELSE folders
        /\ last' = Response("restoreFolder", u, status, [folderId |-> fid], [id |-> fid])
        /\ UNCHANGED <<links, visits, now, nextLinkId, nextFolderId, inflight,
                       users, cookies>>

RestoreItemFolder(u, itemId) ==
    LET status == RestoreFolderStatus(folders, u, itemId)
    IN  /\ folders' = IF status = 200 THEN RestoredFolders(folders, u, itemId) ELSE folders
        /\ last' = Response("restoreItemFolder", u, status, [itemId |-> itemId],
                            [id |-> itemId])
        /\ UNCHANGED <<links, visits, now, nextLinkId, nextFolderId, inflight,
                       users, cookies>>

\* DELETE /api/folder/:folderId/permanent (handlePermanentDeleteFolder).
PermanentDeleteFolder(u, fid) ==
    LET found == FindOwnedFolder(folders, fid, u, TRUE)
        status == IF fid = 0 THEN 400 ELSE IF found = {} THEN 404 ELSE 200
    IN  /\ folders' = IF status = 200 THEN folders \ found ELSE folders
        /\ last' = Response("permanentDeleteFolder", u, status, [folderId |-> fid],
                            [id |-> fid])
        /\ UNCHANGED <<links, visits, now, nextLinkId, nextFolderId, inflight,
                       users, cookies>>

\* DELETE /api/recycle-bin/permanent with itemType "folder".
PermanentDeleteItemFolder(u, itemId) ==
    LET found == FindOwnedFolder(folders, itemId, u, TRUE)
        status == IF itemId = 0 THEN 400 ELSE IF found = {} THEN 404 ELSE 200
    IN  /\ folders' = IF status = 200 THEN folders \ found ELSE folders
        /\ last' = Response("permanentDeleteItemFolder", u, status, [itemId |-> itemId],
                            [id |-> itemId])
        /\ UNCHANGED <<links, visits, now, nextLinkId, nextFolderId, inflight,
                       users, cookies>>

(***************************************************************************)
(* DELETE /api/folder/:folderId with body { mode }: handleDeleteFolder of  *)
(* the mode-based generation, which cascades to the links of folder.urls.  *)
(***************************************************************************)
\* { _id: { $in: urlIds }, createdBy: userId, isDeleted: deleted }
ListedLinks(ls, urlIds, u, deleted) ==
    {l \in ls : l.id \in urlIds /\ l.createdBy = u /\ l.isDeleted = deleted}

DeleteFolder(u, fid, mode) ==
    LET found == FindOwnedFolderAnyState(folders, fid, u)
        doc == CHOOSE f \in found : TRUE
        status == IF fid = 0 THEN 400
                  ELSE IF mode \notin {"trash", "permanent"} THEN 400
                  ELSE IF found = {} THEN 404
                  ELSE IF mode = "trash" /\ doc.isDeleted THEN 400
                  ELSE 200
        trashed == ListedLinks(links, doc.urls, u, FALSE)
        purged == IF doc.isDeleted
                  THEN ListedLinks(links, doc.urls, u, TRUE)
                  ELSE {l \in links : l.id \in doc.urls /\ l.createdBy = u}
    IN  /\ folders' = IF status # 200 THEN folders
                      ELSE IF mode = "trash"
                      THEN (folders \ {doc})
                           \cup {[doc EXCEPT !.isDeleted = TRUE, !.deletedAt = now]}
                      ELSE folders \ {doc}
        /\ links' = IF status # 200 THEN links
                    ELSE IF mode = "trash"
                    THEN {IF l \in trashed
                          THEN [l EXCEPT !.isDeleted = TRUE, !.deletedAt = now]
                          ELSE l : l \in links}
                    ELSE links \ purged
        /\ last' = Response("deleteFolder", u, status,
                            [folderId |-> fid, mode |-> mode],
                            [id |-> IF status = 200 THEN doc.id ELSE 0,
                             trashed |-> IF status = 200 /\ mode = "trash"
                                         THEN Cardinality(trashed) ELSE 0])
        /\ UNCHANGED <<visits, now, nextLinkId, nextFolderId, inflight, users, cookies>>

(***************************************************************************)
(* The requests the specifications send.                                   *)
(***************************************************************************)
\* Custom short IDs: two that differ in case only, and one that is too short.
CustomIds == {<<"a", "b", "a">>, <<"A", "B", "A">>, <<"a", "b">>}

\* Path parameters: the valid custom IDs and the random identifiers.
ShortIds == {<<"a", "b", "a">>, <<"A", "B", "A">>} \cup RandomIds

LinkIds == 0..MaxLinks

(***************************************************************************)
(* Spec: the link routes of part_003 and the recycle bin that allocate,    *)
(* rename, trash, restore and purge identifiers, one request at a time.    *)
(***************************************************************************)
SpecCreateRequests ==
    CreateRequests({<<"example.com">>}, CustomIds \cup {<<>>}, {NoFolder},
                   {"absent"}, {NullDate})

SpecEditRequests ==
    EditRequests({<<>>}, {<<"a", "b", "a">>, <<"A", "B", "A">>}, {Absent},
                 {"absent"}, {Absent})

Next ==
    \/ \E u \in Users, req \in SpecCreateRequests : \E rid \in Draws(req) :
            CreateShortURL(u, req, rid)
    \/ \E u \in Users, id \in ShortIds, req \in SpecEditRequests : EditUrl(u, id, req)
    \/ \E u \in Users, id \in ShortIds : SoftDeleteUrl(u, id)
    \/ \E u \in Users, id \in ShortIds : RestoreUrl(u, id)
    \/ \E u \in Users, id \in ShortIds : PermanentDeleteUrl(u, id)
    \/ \E u \in Users, i \in LinkIds : RestoreItemUrl(u, i)
    \/ \E u \in Users, i \in LinkIds : PermanentDeleteItemUrl(u, i)

Spec == Init /\ [][Next]_vars

\* C2: after any sequence of create (custom or random identifier), rename,
\* soft-delete, restore and permanent-delete requests, no two stored links have
\* identifiers that are equal when letter case is ignored.
C2_IdentifiersUniqueIgnoringCase ==
    \A a, b \in links :
        a.id # b.id => ToLowerCase(a.shortId) # ToLowerCase(b.shortId)

(***************************************************************************)
(* SpecRedirect: links that are created active or inactive, with or        *)
(* without an expiration date, switched on and off, trashed, and requested *)
(* through the two redirect handlers while time passes.                    *)
(***************************************************************************)
\* What the handlers make of the request's headers: one browser, address unknown.
RedirectVisitors == {[deviceType |-> "desktop", country |-> "null"]}

RedirectCreateRequests ==
    CreateRequests({<<"example.com">>}, {<<"a", "b", "a">>, <<>>}, {NoFolder},
                   {"absent", "false"}, {NullDate, 2})

NextRedirect ==
    \/ \E u \in Users, req \in RedirectCreateRequests : \E rid \in Draws(req) :
            nextLinkId <= MaxRedirectLinks /\ CreateShortURL(u, req, rid)
    \/ \E u \in Users, id \in ShortIds : SoftDeleteUrl(u, id)
    \/ \E u \in Users, id \in ShortIds, a \in {"true", "false"} :
            ToggleUrlStatus(u, id, a)
    \/ \E id \in ShortIds, v \in RedirectVisitors, ok \in BOOLEAN : Redirect(id, v, ok)
    \/ \E id \in ShortIds, v \in RedirectVisitors, ok \in BOOLEAN :
            RedirectFiltered(id, v, ok)
    \/ Tick

SpecRedirect == Init /\ [][NextRedirect]_vars

\* C1: a redirect request for the identifier of a link that is soft-deleted,
\* inactive or expired never answers 2xx/3xx: it answers 404 when the link is
\* missing or soft-deleted, otherwise 410 when it is inactive, otherwise 410 when
\* its expiration date is in the past.
C1_DeadLinksAnswer404Or410 ==
    [][(last'.seq # last.seq /\ last'.op \in {"redirect", "redirectFiltered"}) =>
        /\ (\A l \in links : l.shortId # last'.arg.shortId) => last'.status = 404
        /\ \A l \in links :
              l.shortId = last'.arg.shortId =>
                  IF l.isDeleted THEN last'.status = 404
                  ELSE IF ~l.isActive THEN last'.status = 410
                  ELSE IF l.expirationDate # NullDate /\ l.expirationDate < now
                       THEN last'.status = 410
                  ELSE TRUE]_vars

\* C5: a create request with a valid custom alias that no stored link holds
\* (ignoring case) succeeds, and the redirect lookup that follows it, by that
\* alias written in any letter case, resolves to the created link.
C5_CreatedAliasResolvesInAnyCase ==
    [][/\ ( /\ last'.seq # last.seq
            /\ last'.op = "createShortURL"
            /\ IsValidCustomId(last'.arg.customShortId)
            /\ \A l \in links :
                  ToLowerCase(l.shortId) # ToLowerCase(last'.arg.customShortId)
            /\ last'.arg.expirationDate = NullDate \/ last'.arg.expirationDate > now )
          => /\ last'.status = 201
             /\ \E l \in links' \ links : l.shortId = last'.arg.customShortId
       /\ ( /\ last.op = "createShortURL"
            /\ last.status = 201
            /\ last.arg.customShortId # <<>>
            /\ last'.seq # last.seq
            /\ last'.op = "redirect"
            /\ ToLowerCase(last'.arg.shortId) = ToLowerCase(last.arg.customShortId)
            /\ \E l \in links :
                  /\ l.id = last.out.id
                  /\ l.isActive
                  /\ l.expirationDate = NullDate \/ l.expirationDate >= now )
          => /\ last'.status = 302
             /\ last'.out.id = last.out.id]_vars

(***************************************************************************)
(* SpecLegacy: the link routes together with the mode-based generation of  *)
(* the create and delete handlers.                                         *)
(***************************************************************************)
LegacyCreateRequests ==
    CreateRequests({<<"example.com">>}, {<<"a", "b", "a">>, <<"A", "B", "A">>},
                   {NoFolder}, {"absent"}, {NullDate})

GenerateRequests ==
    [redirectURL : {<<"example.com">>},
     customShortId : {<<"a", "b", "a">>, <<"A", "B", "A">>, <<>>}]

DeleteModes == {"trash", "permanent", "none"}

NextLegacy ==
    \/ \E u \in Users, req \in LegacyCreateRequests : \E rid \in Draws(req) :
            CreateShortURL(u, req, rid)
    \/ \E u \in Users, req \in GenerateRequests : \E rid \in Draws(req), t \in BOOLEAN :
            GenerateNewShortURL(u, req, rid, t)
    \/ \E u \in Users, id \in ShortIds : SoftDeleteUrl(u, id)
    \/ \E u \in Users, id \in ShortIds : PermanentDeleteUrl(u, id)
    \/ \E u \in Users, i \in LinkIds : PermanentDeleteItemUrl(u, i)
    \/ \E u \in Users, id \in ShortIds, mode \in DeleteModes : DeleteUrl(u, id, mode)

SpecLegacy == Init /\ [][NextLegacy]_vars

\* The link a permanent-delete request names: by short ID on the link routes,
\* by ObjectId on the recycle-bin route.
PermanentDeleteTarget(r, l) ==
    /\ l.createdBy = r.user
    /\ CASE r.op = "permanentDeleteUrl" -> l.shortId = r.arg.shortId
         [] r.op = "deleteUrl" -> r.arg.mode = "permanent" /\ l.shortId = r.arg.shortId
         [] r.op = "permanentDeleteItemUrl" -> l.id = r.arg.itemId
         [] OTHER -> FALSE

\* C3: a permanent-delete request for a link that is not soft-deleted is rejected
\* and leaves the link unchanged; for a soft-deleted link it succeeds, and
\* afterwards no stored link carries that identifier for any lookup to find.
C3_HardRemovalOnlyFromTrash ==
    [][last'.seq # last.seq =>
        \A l \in links :
            PermanentDeleteTarget(last', l) =>
                IF l.isDeleted
                THEN /\ last'.status = 200
                     /\ \A m \in links' : m.id # l.id /\ m.shortId # l.shortId
                ELSE /\ last'.status >= 400
                     /\ links' = links]_vars

\* C6: a create request whose custom alias equals, ignoring letter case, the
\* identifier of a stored link of any owner, soft-deleted or not, is answered
\* 409 and leaves the link store unchanged.
C6_AliasCollisionAnswers409 ==
    [][( /\ last'.seq # last.seq
         /\ last'.op \in {"createShortURL", "generateNewShortURL"}
         /\ last'.arg.customShortId # <<>>
         /\ \E l \in links :
               ToLowerCase(l.shortId) = ToLowerCase(last'.arg.customShortId) )
       => (last'.status = 409 /\ links' = links)]_vars

(***************************************************************************)
(* SpecFolder: the folder routes of part_006 and the recycle bin, one      *)
(* request at a time.  The names are a pair that differs in case only, a   *)
(* name with a character that is special in a regular expression, and a    *)
(* name that is too short.                                                 *)
(***************************************************************************)
FolderNames == {<<"a", "b">>, <<"A", "B">>, <<"a", "+">>, <<"a">>}

FolderIds == 0..MaxFolders

\* Edit bodies: a new name, a new description, or neither.
FolderEditRequests ==
    [hasName : {TRUE}, name : FolderNames, hasDescription : {FALSE}]
        \cup [hasName : {FALSE}, name : {<<>>}, hasDescription : BOOLEAN]

NextFolder ==
    \/ \E u \in Users, name \in FolderNames : CreateFolder(u, name)
    \/ \E u \in Users, fid \in FolderIds, req \in FolderEditRequests :
            EditFolder(u, fid, req.hasName, req.name, req.hasDescription)
    \/ \E u \in Users, fid \in FolderIds : SoftDeleteFolder(u, fid)
    \/ \E u \in Users, fid \in FolderIds : RestoreFolder(u, fid)
    \/ \E u \in Users, fid \in FolderIds : RestoreItemFolder(u, fid)
    \/ \E u \in Users, fid \in FolderIds : PermanentDeleteFolder(u, fid)
    \/ \E u \in Users, fid \in FolderIds : PermanentDeleteItemFolder(u, fid)

SpecFolder == Init /\ [][NextFolder]_vars

\* C7: restoring a soft-deleted folder whose name equals, ignoring case, the name
\* of a non-deleted folder of the same owner is answered 409 and leaves the
\* folder soft-deleted with its deletedAt unchanged, on the folder restore route
\* and on the recycle-bin restore route.
C7_RestoreNameConflictAnswers409 ==
    [][(last'.seq # last.seq /\ last'.op \in {"restoreFolder", "restoreItemFolder"}) =>
        \A f \in folders :
            ( /\ f.id = last'.out.id
              /\ f.createdBy = last'.user
              /\ f.isDeleted
              /\ \E g \in folders :
                    /\ g.id # f.id
                    /\ g.createdBy = f.createdBy
                    /\ ~g.isDeleted
                    /\ ToLowerCase(g.name) = ToLowerCase(f.name) )
            => (last'.status = 409 /\ f \in folders')]_vars

\* C10: after any sequence of folder create, rename, soft-delete, restore and
\* permanent-delete requests that do not overlap, no owner has two non-deleted
\* folders whose names are equal ignoring case.
C10_FolderNamesUniquePerOwner ==
    \A f, g \in folders :
        (f.id # g.id /\ f.createdBy = g.createdBy /\ ~f.isDeleted /\ ~g.isDeleted)
            => ToLowerCase(f.name) # ToLowerCase(g.name)

(***************************************************************************)
(* SpecMembers: links are filed in folders, by the create handler and by   *)
(* the mode-based edit handler, and folders are deleted by                 *)
(* handleSoftDeleteFolder and by the mode-based handleDeleteFolder.        *)
(***************************************************************************)
MemberUsers == {"u1"}

MemberCreateRequests ==
    CreateRequests({<<"example.com">>}, {<<>>}, FolderIds, {"absent"}, {NullDate})

MemberEditRequests ==
    [newDestinationUrl : {<<>>}, newCustomShortID : {<<>>},
     expirationDate : {Absent}, folderId : 1..MaxFolders]

NextMembers ==
    \/ \E u \in MemberUsers, name \in {<<"a", "b">>, <<"a", "+">>} : CreateFolder(u, name)
    \/ \E u \in MemberUsers, req \in MemberCreateRequests : \E rid \in Draws(req) :
            CreateShortURL(u, req, rid)
    \/ \E u \in MemberUsers, id \in RandomIds, req \in MemberEditRequests :
            EditUrlLegacy(u, id, req)
    \/ \E u \in MemberUsers, id \in RandomIds : SoftDeleteUrl(u, id)
    \/ \E u \in MemberUsers, fid \in FolderIds : SoftDeleteFolder(u, fid)
    \/ \E u \in MemberUsers, fid \in FolderIds, mode \in {"trash", "permanent"} :
            DeleteFolder(u, fid, mode)

SpecMembers == Init /\ [][NextMembers]_vars

\* The links of links whose folder reference the step has cleared.
ClearedBy(fid) ==
    {l \in links : l.folderId = fid
                   /\ \E m \in links' : m.id = l.id /\ m.folderId = NoFolder}

\* The non-deleted links of user u filed in folder fid.
MembersOf(fid, u) ==
    {l \in links : l.folderId = fid /\ l.createdBy = u /\ ~l.isDeleted}

FreeSlot == CHOOSE n \in 1..(MaxInflight + 1) : \A r \in inflight : r.slot # n

\* handleCreateShortURL up to, not including, URL.create.
BeginCreateShortURL(u, req, rid) ==
    LET s1 == CreateIdStatus(links, req)
        status == IF s1 # 0 THEN s1 ELSE CreateExpiryStatus(folders, now, u, req)
        final == IF req.customShortId # <<>> THEN req.customShortId ELSE rid
    IN  /\ (s1 = 0 /\ req.customShortId = <<>>) =>
                (rid \in RandomIds /\ ~ExistsShortId(links, rid))
        /\ status = 0 => Cardinality(inflight) < MaxInflight
        /\ inflight' = IF status = 0
                       THEN inflight \cup {[kind |-> "url", slot |-> FreeSlot, user |-> u,
                                            req |-> req, final |-> final]}
                       ELSE inflight
        /\ last' = IF status = 0 THEN last
                   ELSE Response("createShortURL", u, status, req, [id |-> 0])
        /\ UNCHANGED <<links, folders, visits, now, nextLinkId, nextFolderId,
                       users, cookies>>

\* URL.create and the response: the unique index rejects a stored shortId, and
\* the catch block answers 500.
FinishCreateShortURL(r) ==
    LET doc == NewLinkDoc(nextLinkId, r.user, r.req, r.final)
        status == IF ViolatesUniqueIndex(links, doc) THEN 500 ELSE 201
    IN  /\ r.kind = "url"
        /\ status = 201 => nextLinkId <= MaxLinks
        /\ inflight' = inflight \ {r}
        /\ links' = IF status = 201 THEN links \cup {doc} ELSE links
        /\ nextLinkId' = IF status = 201 THEN nextLinkId + 1 ELSE nextLinkId
        /\ last' = Response("createShortURL", r.user, status, r.req,
                            [id |-> IF status = 201 THEN doc.id ELSE 0])
        /\ UNCHANGED <<folders, visits, now, nextFolderId, users, cookies>>

\* handleCreateFolder up to, not including, Folder.create.
BeginCreateFolder(u, name) ==
    LET status == CreateFolderStatus(folders, u, name)
    IN  /\ status = 201 => Cardinality(inflight) < MaxInflight
        /\ inflight' = IF status = 201
                       THEN inflight \cup {[kind |-> "folder", slot |-> FreeSlot,
                                            user |-> u, name |-> name]}
                       ELSE inflight
        /\ last' = IF status = 201 THEN last
                   ELSE Response("createFolder", u, status, [name |-> name], [id |-> 0])
        /\ UNCHANGED <<links, folders, visits, now, nextLinkId, nextFolderId,
                       users, cookies>>

\* Folder.create and the response: the folder schema declares no unique index.
FinishCreateFolder(r) ==
    LET doc == NewFolderDoc(nextFolderId, r.user, r.name)
    IN  /\ r.kind = "folder"
        /\ nextFolderId <= MaxFolders
        /\ inflight' = inflight \ {r}
        /\ folders' = folders \cup {doc}
        /\ nextFolderId' = nextFolderId + 1
        /\ last' = Response("createFolder", r.user, 201, [name |-> r.name],
                            [id |-> doc.id])
        /\ UNCHANGED <<links, visits, now, nextLinkId, users, cookies>>

(***************************************************************************)
(* SpecRace: create requests for links and folders that overlap.           *)
(***************************************************************************)
RaceCreateRequests ==
    CreateRequests({<<"example.com">>}, {<<"a", "b", "a">>, <<"A", "B", "A">>},
                   {NoFolder}, {"absent"}, {NullDate})

RaceFolderNames == {<<"a", "b">>, <<"A", "B">>}

NextRace ==
    \/ \E u \in Users, req \in RaceCreateRequests : \E rid \in Draws(req) :
            BeginCreateShortURL(u, req, rid)
    \/ \E r \in inflight : FinishCreateShortURL(r)
    \/ \E u \in Users, name \in RaceFolderNames : BeginCreateFolder(u, name)
    \/ \E r \in inflight : FinishCreateFolder(r)

SpecRace == Init /\ [][NextRace]_vars

\* C8: when two create requests whose custom aliases are equal ignoring case
\* overlap, at most one link with that alias ends up stored.
C8_OneLinkPerAlias ==
    \A alias \in {r.customShortId : r \in RaceCreateRequests} :
        Cardinality({l \in links : ToLowerCase(l.shortId) = ToLowerCase(alias)}) <= 1

\* C9: when two folder create requests of one owner with names equal ignoring
\* case overlap, at most one non-deleted folder with that name ends up stored
\* for the owner.
C9_OneFolderPerOwnerAndName ==
    \A u \in Users, name \in RaceFolderNames :
        Cardinality({f \in folders : /\ f.createdBy = u
                                     /\ ~f.isDeleted
                                     /\ ToLowerCase(f.name) = ToLowerCase(name)}) <= 1

(***************************************************************************)
(* The redirect handlers with the visit write they start but do not await: *)
(* visitDoc.save() returns a promise, the handler attaches a catch that    *)
(* logs, and goes on to res.redirect.  The first action is the handler up  *)
(* to its response, with the write left pending in inflight; the second is *)
(* the write settling, fulfilled (the document is stored) or rejected.     *)
(***************************************************************************)
\* The pending write of a visitHistory document for link id.
PendingVisit(id, visitor) ==
    [kind |-> "visit", slot |-> FreeSlot, urlId |-> id, visitor |-> visitor]

\* handleRedirect of analyticsUrl.controller.js.
RedirectRespond(shortId, visitor) ==
    LET found == FindRedirectTarget(links, shortId)
        doc == CHOOSE l \in found : TRUE
        status == RedirectStatus(links, now, shortId)
        started == status = 302
    IN  /\ started => Cardinality(inflight) < MaxInflight
        /\ inflight' = IF started THEN inflight \cup {PendingVisit(doc.id, visitor)} ELSE inflight
        /\ last' = Response("redirect", "anyone", status, [shortId |-> shortId],
                            [id |-> IF found = {} THEN 0 ELSE doc.id,
                             location |-> IF status = 302 THEN doc.redirectURL ELSE <<>>])
        /\ UNCHANGED <<links, folders, visits, now, nextLinkId, nextFolderId,
                       users, cookies>>

\* handleRedirect of redirect.controller.js: the write starts before the
\* destination is validated.
RedirectFilteredRespond(shortId, visitor) ==
    LET found == FindRedirectableTarget(links, now, shortId)
        doc == CHOOSE l \in found : TRUE
        status == RedirectFilteredStatus(links, now, shortId)
        started == Trim(shortId) # <<>> /\ found # {}
    IN  /\ started => Cardinality(inflight) < MaxInflight
        /\ inflight' = IF started THEN inflight \cup {PendingVisit(doc.id, visitor)} ELSE inflight
        /\ last' = Response("redirectFiltered", "anyone", status, [shortId |-> shortId],
                            [id |-> IF found = {} THEN 0 ELSE doc.id,
                             location |-> IF status = 301 THEN doc.redirectURL ELSE <<>>])
        /\ UNCHANGED <<links, folders, visits, now, nextLinkId, nextFolderId,
                       users, cookies>>

\* The write settles, and a rejection becomes an error response.
VisitSaveSettlesReporting(w, ok) ==
    /\ w.kind = "visit"
    /\ ok => CountVisits(visits[w.urlId]) < MaxVisits
    /\ inflight' = inflight \ {w}
    /\ visits' = IF ok THEN [visits EXCEPT ![w.urlId][w.visitor] = @ + 1] ELSE visits
    /\ last' = IF ok THEN last ELSE [last EXCEPT !.status = 500]
    /\ UNCHANGED <<links, folders, now, nextLinkId, nextFolderId, users, cookies>>

\* visitDoc.save() settles: the document is stored, or the catch logs the error.
VisitSaveSettles(w, ok) ==
    /\ w.kind = "visit"
    /\ ok => CountVisits(visits[w.urlId]) < MaxVisits
    /\ inflight' = inflight \ {w}
    /\ visits' = IF ok THEN [visits EXCEPT ![w.urlId][w.visitor] = @ + 1] ELSE visits
    /\ UNCHANGED <<links, folders, now, nextLinkId, nextFolderId, last, users, cookies>>

(***************************************************************************)
(* SpecVisits: links created from destinations with and without a scheme,  *)
(* requested through the two redirect handlers, whose visit writes settle  *)
(* later, fulfilled or rejected.                                           *)
(***************************************************************************)
VisitDestinations ==
    {<<"example.com">>, <<" ", "example.com">>, <<"http://", "example.com">>,
     <<"ftp://", "example.com">>}

VisitCreateRequests ==
    CreateRequests(VisitDestinations, {<<"a", "b", "a">>, <<>>}, {NoFolder},
                   {"absent", "false"}, {NullDate, 2})

NextVisits ==
    \/ \E u \in MemberUsers, req \in VisitCreateRequests : \E rid \in Draws(req) :
            nextLinkId <= MaxRedirectLinks /\ CreateShortURL(u, req, rid)
    \/ \E u \in MemberUsers, id \in ShortIds : SoftDeleteUrl(u, id)
    \/ \E id \in ShortIds, v \in RedirectVisitors : RedirectRespond(id, v)
    \/ \E id \in ShortIds, v \in RedirectVisitors : RedirectFilteredRespond(id, v)
    \/ \E w \in inflight, ok \in BOOLEAN : VisitSaveSettles(w, ok)
    \/ Tick

SpecVisits == Init /\ [][NextVisits]_vars

\* The link a redirect request names can be redirected: it is stored under the
\* requested identifier, not soft-deleted, active and not expired.
Redirectable(l, shortId) ==
    /\ l.shortId = shortId
    /\ ~l.isDeleted
    /\ l.isActive
    /\ (l.expirationDate = NullDate \/ l.expirationDate > now)

\* The step is a redirect request.
IsRedirectStep ==
    last'.seq # last.seq /\ last'.op \in {"redirect", "redirectFiltered"}

\* The step is the settling of the pending visit write w.
SettlesVisit(w) ==
    w \in inflight /\ w.kind = "visit" /\ inflight' = inflight \ {w}

\* What C11 and its amendment share: a create request whose destination has no
\* scheme stores the (trimmed) destination with "https://" in front, and a
\* redirect request for a redirectable link with such a destination answers 3xx
\* with exactly the stored destination as its target and starts one visit write
\* for that link.
SchemelessCreateAndRedirect ==
    /\ ( /\ last'.seq # last.seq
         /\ last'.op = "createShortURL"
         /\ last'.status = 201
         /\ ~HasScheme(Trim(last'.arg.redirectURL)) )
       => \E l \in links' \ links :
             /\ l.id = last'.out.id
             /\ l.redirectURL = <<"https://">> \o Trim(last'.arg.redirectURL)
    /\ IsRedirectStep =>
          \A l \in links :
              (Redirectable(l, last'.arg.shortId) /\ l.redirectURL[1] = "https://")
                  => /\ last'.status \in 300..399
                     /\ last'.out.location = l.redirectURL
                     /\ \E w \in inflight' \ inflight :
                           /\ w.urlId = l.id
                           /\ inflight' = inflight \cup {w}
                     /\ visits' = visits

RoundedPercent(n, d) == (200 * n + d) \div (2 * d)

\* totalClicks > 0 ? Math.round((entry.count / totalClicks) * 100) : 0
Percentage(count, totalClicks) ==
    IF totalClicks > 0 THEN RoundedPercent(count, totalClicks) ELSE 0

\* { $group: { _id: { $ifNull: ["$deviceType", "unknown"] }, count: { $sum: 1 } } }
DeviceCount(v, d) == SumOver(v, {k \in VisitKinds : k.deviceType = d})

\* { $group: { _id: { $ifNull: ["$country", "unknown"] }, count: { $sum: 1 } } }
CountryName(c) == IF c = "null" THEN "unknown" ELSE c

CountryCount(v, name) == SumOver(v, {k \in VisitKinds : CountryName(k.country) = name})

\* result.deviceStats.map(...): one entry per device type that has a document.
DeviceStats(v) ==
    [d \in {x \in DeviceTypes : DeviceCount(v, x) > 0} |->
        [count |-> DeviceCount(v, d),
         percentage |-> Percentage(DeviceCount(v, d), CountVisits(v))]]

\* result.countryStats.map(...): one entry per country that has a document (the
\* $limit of 10 groups is above the countries of the model).
CountryStats(v) ==
    [c \in {CountryName(x) : x \in {y \in Countries : CountryCount(v, CountryName(y)) > 0}} |->
        [count |-> CountryCount(v, c),
         percentage |-> Percentage(CountryCount(v, c), CountVisits(v))]]

GetChartsData(u, shortId) ==
    LET found == FindOwnedLink(links, shortId, u, FALSE)
        doc == CHOOSE l \in found : TRUE
        status == IF found = {} THEN 404 ELSE 200
    IN  /\ last' = Response("getChartsData", u, status, [shortId |-> shortId],
                            IF status = 200
                            THEN [id |-> doc.id,
                                  totalClicks |-> CountVisits(visits[doc.id]),
                                  devices |-> DeviceStats(visits[doc.id]),
                                  countries |-> CountryStats(visits[doc.id])]
                            ELSE [id |-> 0, totalClicks |-> 0,
                                  devices |-> <<>>, countries |-> <<>>])
        /\ UNCHANGED <<links, folders, visits, now, nextLinkId, nextFolderId, inflight,
                       users, cookies>>

(***************************************************************************)
(* SpecCharts: a link that has been visited, by any mix of visitors, and   *)
(* whose charts are requested.                                             *)
(***************************************************************************)
\* The visits the charted link has had.
MaxChartVisits == 6

ChartedLink ==
    NewLinkDoc(1, "u1",
               [redirectURL |-> <<"example.com">>, customShortId |-> <<"a", "b", "a">>,
                folderId |-> NoFolder, isActive |-> "absent",
                expirationDate |-> NullDate, neverExpire |-> FALSE],
               <<"a", "b", "a">>)

InitCharts ==
    /\ links = {ChartedLink}
    /\ folders = {}
    /\ \E v \in [VisitKinds -> 0..MaxChartVisits] :
          /\ CountVisits(v) <= MaxChartVisits
          /\ visits = [i \in 1..MaxLinks |-> IF i = 1 THEN v ELSE NoVisits]
    /\ now = 1
    /\ nextLinkId = 2
    /\ nextFolderId = 1
    /\ last = [op |-> "none", user |-> "none", status |-> 0, arg |-> [x |-> 0],
               out |-> [x |-> 0], seq |-> 0]
    /\ inflight = {}
    /\ users = {}
    /\ cookies = [c \in Users |-> NoCookies]

NextCharts ==
    \E u \in Users, id \in {<<"a", "b", "a">>, <<"A", "B", "A">>} : GetChartsData(u, id)

SpecCharts == InitCharts /\ [][NextCharts]_vars

\* The sum of the percentage fields of a breakdown.
PercentageSum(stats) ==
    SumOver([x \in DOMAIN stats |-> stats[x].percentage], DOMAIN stats)

\* C13: in the charts of a link, the percentage fields of a breakdown (by device,
\* by country), each round(count / total * 100), sum to at most 100, and every
\* percentage is 0 when the link has no visit.
C13_PercentagesSumToAtMost100 ==
    (last.op = "getChartsData" /\ last.status = 200) =>
        /\ PercentageSum(last.out.devices) <= 100
        /\ PercentageSum(last.out.countries) <= 100
        /\ last.out.totalClicks = 0 =>
              /\ \A d \in DOMAIN last.out.devices : last.out.devices[d].percentage = 0
              /\ \A c \in DOMAIN last.out.countries : last.out.countries[c].percentage = 0

(***************************************************************************)
(* SpecOwner: two users who each create links and folders, and who each    *)
(* send every owner-scoped request, for their own records, for the other   *)
(* user's and for records that do not exist.                               *)
(***************************************************************************)
OwnerCreateRequests ==
    CreateRequests({<<"example.com">>}, {<<>>}, {NoFolder, 1}, {"absent"}, {NullDate})

\* An edit that sends the destination again.
OwnerEditRequests ==
    EditRequests({<<"example.com">>}, {<<>>}, {Absent}, {"absent"}, {Absent})

\* The urlIds arrays of the remove-urls requests.
OwnerUrlIdSets == (SUBSET (1..MaxLinks)) \ {{}}

NextOwner ==
    \/ \E u \in Users, req \in OwnerCreateRequests : \E rid \in Draws(req) :
            CreateShortURL(u, req, rid)
    \/ \E u \in Users : nextFolderId <= MaxOwnerFolders /\ CreateFolder(u, <<"a", "b">>)
    \/ \E u \in Users, id \in RandomIds, req \in OwnerEditRequests : EditUrl(u, id, req)
    \/ \E u \in Users, id \in RandomIds : ToggleUrlStatus(u, id, "true")
    \/ \E u \in Users, id \in RandomIds : SoftDeleteUrl(u, id)
    \/ \E u \in Users, id \in RandomIds : RestoreUrl(u, id)
    \/ \E u \in Users, id \in RandomIds : PermanentDeleteUrl(u, id)
    \/ \E u \in Users, i \in 1..MaxLinks : RestoreItemUrl(u, i)
    \/ \E u \in Users, i \in 1..MaxLinks : PermanentDeleteItemUrl(u, i)
    \/ \E u \in Users, id \in RandomIds : GetChartsData(u, id)
    \/ \E u \in Users, fid \in 1..MaxFolders :
            EditFolder(u, fid, FALSE, <<>>, TRUE)
    \/ \E u \in Users, fid \in 1..MaxFolders : SoftDeleteFolder(u, fid)
    \/ \E u \in Users, fid \in 1..MaxFolders, ids \in OwnerUrlIdSets :
            RemoveUrlsFromFolder(u, fid, ids)
    \/ \E u \in Users, fid \in 1..MaxFolders : RestoreFolder(u, fid)
    \/ \E u \in Users, fid \in 1..MaxFolders : RestoreItemFolder(u, fid)
    \/ \E u \in Users, fid \in 1..MaxFolders : PermanentDeleteFolder(u, fid)
    \/ \E u \in Users, fid \in 1..MaxFolders : PermanentDeleteItemFolder(u, fid)

SpecOwner == Init /\ [][NextOwner]_vars

\* The owner-scoped requests that name a link by its short ID, a link by its
\* ObjectId, and a folder by its ObjectId.
LinkOpsByShortId ==
    {"editUrl", "toggleUrlStatus", "softDeleteUrl", "restoreUrl", "permanentDeleteUrl",
     "getChartsData"}

LinkOpsByItemId == {"restoreItemUrl", "permanentDeleteItemUrl"}

FolderOpsByFolderId ==
    {"editFolder", "softDeleteFolder", "removeUrlsFromFolder", "restoreFolder",
     "permanentDeleteFolder"}

FolderOpsByItemId == {"restoreItemFolder", "permanentDeleteItemFolder"}

\* The records the request r names, whoever owns them.
TargetLinks(r) ==
    IF r.op \in LinkOpsByShortId THEN {l \in links : l.shortId = r.arg.shortId}
    ELSE IF r.op \in LinkOpsByItemId THEN {l \in links : l.id = r.arg.itemId}
    ELSE {}

TargetFolders(r) ==
    IF r.op \in FolderOpsByFolderId THEN {f \in folders : f.id = r.arg.folderId}
    ELSE IF r.op \in FolderOpsByItemId THEN {f \in folders : f.id = r.arg.itemId}
    ELSE {}

IsOwnerScopedStep ==
    /\ last'.seq # last.seq
    /\ last'.op \in LinkOpsByShortId \cup LinkOpsByItemId
                    \cup FolderOpsByFolderId \cup FolderOpsByItemId

\* C14: an owner-scoped request (edit, status toggle, soft-delete, restore,
\* permanent-delete, remove-urls, analytics) by a user for a record of another
\* user is answered 404, as is the same request for a record that does not
\* exist, and changes no link, folder or visit; whatever request a user sends,
\* the records of other users are unchanged.
C14_ForeignRecordsAnswer404 ==
    [][/\ IsOwnerScopedStep =>
             LET mine == {x \in TargetLinks(last') \cup TargetFolders(last') :
                             x.createdBy = last'.user}
             IN  mine = {} => /\ last'.status = 404
                              /\ links' = links
                              /\ folders' = folders
                              /\ visits' = visits
       /\ last'.seq # last.seq =>
             /\ \A l \in links : l.createdBy # last'.user => l \in links'
             /\ \A f \in folders : f.createdBy # last'.user => f \in folders']_vars

\* A user has asked to soft-delete another user's non-deleted folder that holds
\* a link, and was answered 404.
C14_Witness ==
    /\ last.op = "softDeleteFolder"
    /\ last.status = 404
    /\ \E f \in folders :
          /\ f.id = last.arg.folderId
          /\ f.createdBy # last.user
          /\ ~f.isDeleted
          /\ \E l \in links : l.folderId = f.id /\ ~l.isDeleted

\* ---------------------------------------------------------------------------
\* Sessions: sign-up, login, logout and the two refresh handlers
\* ---------------------------------------------------------------------------

\* expiresIn "15m" and "7d", in ticks of the logical clock
AccessLifetime == 1

RefreshLifetime == 2

\* jwt.sign(payload, secret, { expiresIn })
JwtSign(u, secret, lifetime) == [secret |-> secret, id |-> u, exp |-> now + lifetime]

\* jwt.verify(token, secret): the signature matches and the token has not
\* expired (a token is expired from its exp instant on)
JwtVerify(t, secret) == t.secret = secret /\ now < t.exp

generateAccessToken(u) == JwtSign(u, "access", AccessLifetime)

generateRefreshToken(u) == JwtSign(u, "refresh", RefreshLifetime)

verifyRefreshToken(t) == JwtVerify(t, "refresh")

\* What a client can send as its refreshToken cookie: the cookie it holds, no
\* cookie, its access token in the place of the refresh token, or a token
\* signed with a key that is not the server's.
PresentableTokens(c) ==
    {cookies[c].refreshToken, NoToken, cookies[c].accessToken,
     [secret |-> "forged", id |-> c, exp |-> MaxTime + RefreshLifetime]}

\* handleUserSignUp
UserSignUp(u) ==
    LET status == IF u \in users THEN 403 ELSE 201
    IN  /\ users' = IF status = 201 THEN users \cup {u} ELSE users
        /\ last' = Response("signUp", u, status, [email |-> u], [x |-> 0])
        /\ UNCHANGED <<links, folders, visits, now, nextLinkId, nextFolderId,
                       inflight, cookies>>

\* handleUserLogin: client c logs in as user u
UserLogin(c, u, passwordOk) ==
    LET status == IF u \notin users THEN 401
                  ELSE IF ~passwordOk THEN 401
                  ELSE 200
    IN  /\ cookies' = IF status = 200
                      THEN [cookies EXCEPT ![c] =
                               [accessToken |-> generateAccessToken(u),
                                refreshToken |-> generateRefreshToken(u)]]
                      ELSE cookies
        /\ last' = Response("login", c, status, [email |-> u], [x |-> 0])
        /\ UNCHANGED <<links, folders, visits, now, nextLinkId, nextFolderId,
                       inflight, users>>

\* handleUserLogout
UserLogout(c) ==
    /\ cookies' = [cookies EXCEPT ![c] = NoCookies]
    /\ last' = Response("logout", c, 200, [x |-> 0], [x |-> 0])
    /\ UNCHANGED <<links, folders, visits, now, nextLinkId, nextFolderId,
                   inflight, users>>

\* router.get("/refresh-access"): the handler written in the route file
RefreshAccess(c, refreshToken) ==
    LET status == IF refreshToken = NoToken THEN 401
                  ELSE IF ~verifyRefreshToken(refreshToken) THEN 401
                  ELSE 200
    IN  /\ cookies' = IF status = 200
                      THEN [cookies EXCEPT ![c].accessToken =
                               generateAccessToken(refreshToken.id)]
                      ELSE cookies
        /\ last' = Response("refreshAccess", c, status, [token |-> refreshToken], [x |-> 0])
        /\ UNCHANGED <<links, folders, visits, now, nextLinkId, nextFolderId,
                       inflight, users>>

\* payload.id: the tokens are signed with the field _id, not id
PayloadId(t) == "none"

\* user.isActive: userSchema has no such field
IsActiveOf(u) == FALSE

\* handleRefreshToken; User.findById(payload.id) is a lookup in the user
\* collection
RefreshToken(c, refreshToken) ==
    LET status == IF refreshToken = NoToken THEN 401
                  ELSE IF ~verifyRefreshToken(refreshToken) THEN 401
                  ELSE IF PayloadId(refreshToken) \notin users THEN 401
                  ELSE IF ~IsActiveOf(PayloadId(refreshToken)) THEN 403
                  ELSE 200
        cleared == refreshToken # NoToken /\ ~verifyRefreshToken(refreshToken)
    IN  /\ cookies' = IF cleared THEN [cookies EXCEPT ![c] = NoCookies]
                      ELSE IF status = 200
                      THEN [cookies EXCEPT ![c].accessToken =
                               generateAccessToken(PayloadId(refreshToken))]
                      ELSE cookies
        /\ last' = Response("refreshToken", c, status, [token |-> refreshToken], [x |-> 0])
        /\ UNCHANGED <<links, folders, visits, now, nextLinkId, nextFolderId,
                       inflight, users>>

NextAuth ==
    \/ \E u \in Users : UserSignUp(u)
    \/ \E c \in Users, u \in Users, ok \in BOOLEAN : UserLogin(c, u, ok)
    \/ \E c \in Users : UserLogout(c)
    \/ \E c \in Users : \E t \in PresentableTokens(c) : RefreshAccess(c, t)
    \/ \E c \in Users : \E t \in PresentableTokens(c) : RefreshToken(c, t)
    \/ Tick

SpecAuth == Init /\ [][NextAuth]_vars

IsRefreshStep ==
    /\ last'.seq # last.seq
    /\ last'.op \in {"refreshAccess", "refreshToken"}

\* C15: a refresh request that presents a valid, unexpired refresh credential
\* of an existing user is answered with success and sets a new access
\* credential for that user; a request with a missing, invalid or expired
\* refresh credential is answered 401 and sets no access credential.
C15_RefreshExchangesValidCredential ==
    [][IsRefreshStep =>
          LET t == last'.arg.token
              c == last'.user
          IN  IF t # NoToken /\ t.secret = "refresh" /\ now < t.exp
              THEN t.id \in users =>
                      /\ last'.status = 200
                      /\ cookies'[c].accessToken =
                            [secret |-> "access", id |-> t.id,
                             exp |-> now + AccessLifetime]
              ELSE /\ last'.status = 401
                   /\ cookies'[c].accessToken \in {cookies[c].accessToken, NoToken}]_vars

\* ---------------------------------------------------------------------------
\* Recycle bin listing
\* ---------------------------------------------------------------------------

\* .limit(type === "url" ? limitNum : 10)
UntypedLimit == 10

\* Math.min(100, Math.max(1, parseInt(limit)))
LimitCeiling == 100

MaxPage == 3

MaxLimit == 2

Least(a, b) == IF a < b THEN a ELSE b

Greatest(a, b) == IF a > b THEN a ELSE b

\* Math.ceil(n / d)
CeilDiv(n, d) == (n + d - 1) \div d

\* find(query).sort({ deletedAt: -1 }): latest deletion first, documents of
\* equal deletedAt in the order they were inserted
RECURSIVE SortByDeletedAtDesc(_)
SortByDeletedAtDesc(S) ==
    IF S = {} THEN <<>>
    ELSE LET first == CHOOSE x \in S :
                         \A y \in S : \/ x.deletedAt > y.deletedAt
                                      \/ x.deletedAt = y.deletedAt /\ x.id <= y.id
         IN  <<first>> \o SortByDeletedAtDesc(S \ {first})

\* .skip(skip).limit(limit)
SkipLimit(s, skip, limit) == SubSeq(s, skip + 1, Least(Len(s), skip + limit))

\* deletedUrls.map(...), deletedFolders.map(...)
FormatItems(s, type) ==
    [i \in 1..Len(s) |-> [type |-> type, id |-> s[i].id, deletedAt |-> s[i].deletedAt]]

\* [...].sort((a, b) => new Date(b.deletedAt) - new Date(a.deletedAt)): a
\* stable sort, so items of equal deletedAt keep their order
RECURSIVE SortItems(_)
SortItems(s) ==
    IF s = <<>> THEN <<>>
    ELSE LET x == s[Len(s)]
             sorted == SortItems(SubSeq(s, 1, Len(s) - 1))
             k == Cardinality({i \in 1..Len(sorted) : sorted[i].deletedAt >= x.deletedAt})
         IN  SubSeq(sorted, 1, k) \o <<x>> \o SubSeq(sorted, k + 1, Len(sorted))

DeletedUrlsOf(u) == {l \in links : l.createdBy = u /\ l.isDeleted}

DeletedFoldersOf(u) == {f \in folders : f.createdBy = u /\ f.isDeleted}

\* The body of the 200 response of handleListRecycleBinItems; type is "none"
\* when the query has no type parameter.
RecycleBinPage(u, page, limit, type) ==
    LET pageNum == Greatest(1, page)
        limitNum == Least(LimitCeiling, Greatest(1, limit))
        skip == (pageNum - 1) * limitNum
        deletedUrls ==
            IF type \in {"none", "url"}
            THEN SkipLimit(SortByDeletedAtDesc(DeletedUrlsOf(u)),
                           IF type = "url" THEN skip ELSE 0,
                           IF type = "url" THEN limitNum ELSE UntypedLimit)
            ELSE <<>>
        urlCount == IF type \in {"none", "url"}
                    THEN Cardinality(DeletedUrlsOf(u)) ELSE 0
        deletedFolders ==
            IF type \in {"none", "folder"}
            THEN SkipLimit(SortByDeletedAtDesc(DeletedFoldersOf(u)),
                           IF type = "folder" THEN skip ELSE 0,
                           IF type = "folder" THEN limitNum ELSE UntypedLimit)
            ELSE <<>>
        folderCount == IF type \in {"none", "folder"}
                       THEN Cardinality(DeletedFoldersOf(u)) ELSE 0
        formattedUrls == FormatItems(deletedUrls, "url")
        formattedFolders == FormatItems(deletedFolders, "folder")
        items == IF type = "none" THEN SortItems(formattedUrls \o formattedFolders)
                 ELSE IF type = "url" THEN formattedUrls
                 ELSE formattedFolders
        totalCount == IF type = "url" THEN urlCount
                      ELSE IF type = "folder" THEN folderCount
                      ELSE urlCount + folderCount
        totalPages == CeilDiv(totalCount, limitNum)
    IN  [items |-> items, currentPage |-> pageNum, totalPages |-> totalPages,
         totalCount |-> totalCount, limit |-> limitNum,
         hasNextPage |-> pageNum < totalPages]

\* handleListRecycleBinItems
ListRecycleBinItems(u, page, limit, type) ==
    /\ last' = Response("listRecycleBin", u, 200,
                        [page |-> page, limit |-> limit, type |-> type],
                        RecycleBinPage(u, page, limit, type))
    /\ UNCHANGED <<links, folders, visits, now, nextLinkId, nextFolderId, inflight,
                   users, cookies>>

NextBin ==
    \/ \E u \in MemberUsers, req \in OwnerCreateRequests : \E rid \in Draws(req) :
            CreateShortURL(u, req, rid)
    \/ \E u \in MemberUsers : CreateFolder(u, <<"a", "b">>)
    \/ \E u \in MemberUsers, id \in RandomIds : SoftDeleteUrl(u, id)
    \/ \E u \in MemberUsers, fid \in 1..MaxFolders : SoftDeleteFolder(u, fid)
    \/ \E u \in MemberUsers, page \in 1..MaxPage, limit \in 1..MaxLimit,
          type \in {"none", "url", "folder"} :
            ListRecycleBinItems(u, page, limit, type)
    \/ Tick

SpecBin == Init /\ [][NextBin]_vars

\* The items of pages 1..n of the listing without a type filter, in page order.
RECURSIVE RecycleBinWalk(_, _, _)
RecycleBinWalk(u, limit, n) ==
    IF n = 0 THEN <<>>
    ELSE RecycleBinWalk(u, limit, n - 1) \o RecycleBinPage(u, n, limit, "none").items

\* C16: without a type filter the recycle-bin listing pages through the merged
\* list of the caller's soft-deleted links and folders, latest deletion first:
\* pages 1..totalPages taken with one limit hold every soft-deleted link and
\* folder of the caller exactly once, in that order, and hasNextPage is true
\* exactly when items remain beyond the page returned.
C16_RecycleBinPagesPartitionItems ==
    (last.op = "listRecycleBin" /\ last.arg.type = "none") =>
        LET u == last.user
            walk == RecycleBinWalk(u, last.arg.limit, last.out.totalPages)
            seen == RecycleBinWalk(u, last.arg.limit, last.out.currentPage)
            all == {[type |-> "url", id |-> l.id, deletedAt |-> l.deletedAt] :
                        l \in DeletedUrlsOf(u)}
                   \cup {[type |-> "folder", id |-> f.id, deletedAt |-> f.deletedAt] :
                            f \in DeletedFoldersOf(u)}
        IN  /\ {walk[i] : i \in 1..Len(walk)} = all
            /\ Len(walk) = Cardinality(all)
            /\ \A i \in 1..Len(walk) : \A j \in i..Len(walk) :
                  walk[i].deletedAt >= walk[j].deletedAt
            /\ last.out.hasNextPage <=>
                  (all \ {seen[i] : i \in 1..Len(seen)} # {})

\* ---------------------------------------------------------------------------
\* Alias rename
\* ---------------------------------------------------------------------------

\* An edit request of the owner of a non-deleted link that asks for an alias
\* other than the one in the path has completed.
IsRenameStep ==
    /\ last'.seq # last.seq
    /\ last'.op = "editUrl"
    /\ FindOwnedLink(links, last'.arg.shortId, last'.user, FALSE) # {}
    /\ last'.arg.body.newShortId # <<>>
    /\ last'.arg.body.newShortId # last'.arg.shortId

\* C17: an alias rename through edit succeeds exactly when no link other than
\* the edited one holds the new alias ignoring case (so a rename to a
\* case-variant of the link's own alias succeeds); when another link holds it
\* the request is answered 409 and the links are unchanged.
C17_RenameExcludesEditedLink ==
    [][IsRenameStep =>
          LET doc == CHOOSE l \in FindOwnedLink(links, last'.arg.shortId,
                                                last'.user, FALSE) : TRUE
              alias == last'.arg.body.newShortId
              others == {l \in links : /\ l.id # doc.id
                                       /\ ToLowerCase(l.shortId) = ToLowerCase(alias)}
          IN  IF others = {}
              THEN /\ last'.status = 200
                   /\ \E l \in links' : l.id = doc.id /\ l.shortId = alias
              ELSE /\ last'.status = 409
                   /\ links' = links]_vars

\* ---------------------------------------------------------------------------
\* Folder assignment through create and edit
\* ---------------------------------------------------------------------------

\* An edit that assigns the link to a folder and sends the destination again.
AssignEditRequests ==
    EditRequests({<<"example.com">>}, {<<>>}, 1..MaxFolders, {"absent"}, {Absent})

NextAssign ==
    \/ \E u \in Users : nextFolderId <= MaxOwnerFolders /\ CreateFolder(u, <<"a", "b">>)
    \/ \E u \in Users, req \in OwnerCreateRequests : \E rid \in Draws(req) :
            CreateShortURL(u, req, rid)
    \/ \E u \in Users, id \in RandomIds, req \in AssignEditRequests : EditUrl(u, id, req)
    \/ \E u \in Users, id \in RandomIds, req \in MemberEditRequests :
            EditUrlLegacy(u, id, req)
    \/ \E u \in Users, fid \in 1..MaxFolders : SoftDeleteFolder(u, fid)

SpecAssign == Init /\ [][NextAssign]_vars

\* A create or edit request that supplies a folder has completed.
IsAssignStep ==
    /\ last'.seq # last.seq
    /\ \/ last'.op = "createShortURL" /\ last'.arg.folderId # NoFolder
       \/ /\ last'.op \in {"editUrl", "editUrlLegacy"}
          /\ last'.arg.body.folderId \notin {Absent, NoFolder}

AssignedFolder(r) ==
    IF r.op = "createShortURL" THEN r.arg.folderId ELSE r.arg.body.folderId

\* C18: when a create or edit request that supplies a folder succeeds, the
\* folder exists, is owned by the caller and is not soft-deleted when it is
\* checked, and the link references it; when the folder is missing, foreign or
\* soft-deleted the request is answered 404 and the stored links are unchanged.
C18_AssignedFolderIsValidated ==
    [][IsAssignStep =>
          LET fid == AssignedFolder(last')
              valid == \E f \in folders : /\ f.id = fid
                                          /\ f.createdBy = last'.user
                                          /\ ~f.isDeleted
          IN  /\ last'.status \in {200, 201} =>
                    /\ valid
                    /\ \E l \in links' : l.id = last'.out.id /\ l.folderId = fid
              /\ ~valid => last'.status = 404 /\ links' = links]_vars

\* ---------------------------------------------------------------------------
\* Removing links from a folder
\* ---------------------------------------------------------------------------

\* A remove-urls request with well-formed ids has completed.
IsRemoveUrlsStep ==
    /\ last'.seq # last.seq
    /\ last'.op = "removeUrlsFromFolder"
    /\ last'.arg.folderId # 0
    /\ last'.arg.urlIds # {}
    /\ 0 \notin last'.arg.urlIds

\* C19: a remove-urls request on a non-deleted folder of the caller clears the
\* folder reference of exactly the links of the id set that reference the
\* folder, are owned by the caller and are not soft-deleted; every other link
\* is unchanged and removedCount is the number of links cleared.
C19_RemoveUrlsClearsExactlyTheMembers ==
    [][IsRemoveUrlsStep =>
          LET fid == last'.arg.folderId
              u == last'.user
              target == \E f \in folders :
                            f.id = fid /\ f.createdBy = u /\ ~f.isDeleted
              cleared == {l \in links : /\ l.id \in last'.arg.urlIds
                                        /\ l.folderId = fid
                                        /\ l.createdBy = u
                                        /\ ~l.isDeleted}
          IN  IF target
              THEN /\ last'.status = 200
                   /\ links' = (links \ cleared)
                               \cup {[l EXCEPT !.folderId = NoFolder] : l \in cleared}
                   /\ last'.out.removedCount = Cardinality(cleared)
                   /\ folders' = folders
              ELSE /\ last'.status = 404
                   /\ links' = links]_vars

\* A remove-urls request named two links of the folder, one of them in the
\* recycle bin, and cleared only the other.
C19_Witness ==
    /\ last.op = "removeUrlsFromFolder"
    /\ last.status = 200
    /\ last.out.removedCount = 1
    /\ Cardinality(last.arg.urlIds) = 2
    /\ \E l \in links : /\ l.id \in last.arg.urlIds
                        /\ l.folderId = last.arg.folderId
                        /\ l.isDeleted
    /\ \E l \in links : /\ l.id \in last.arg.urlIds
                        /\ l.folderId = NoFolder
                        /\ ~l.isDeleted

\* ---------------------------------------------------------------------------
\* Soft-delete and restore of a link
\* ---------------------------------------------------------------------------

\* The link the completed request acted on, before and after the request.
ActedLinkBefore == CHOOSE l \in links : l.id = last'.out.id

ActedLinkAfter == CHOOSE l \in links' : l.id = last'.out.id

IsLinkSoftDeleteStep ==
    /\ last'.seq # last.seq
    /\ last'.op = "softDeleteUrl"
    /\ last'.status = 200

IsLinkRestoreStep ==
    /\ last'.seq # last.seq
    /\ last'.op \in {"restoreUrl", "restoreItemUrl"}
    /\ last'.status = 200

\* C20: soft-deleting a link changes only its isDeleted and deletedAt fields
\* (from false and null), and restoring it, through the link route or the
\* recycle bin, sets just those two back to false and null whatever the state
\* of the folder it references; so soft-delete followed by restore returns the
\* link with the identifier, destination, folder reference, active flag and
\* expiration it had. No other link and no folder is changed by either.
C20_SoftDeleteAndRestoreChangeOnlyFlags ==
    [][/\ IsLinkSoftDeleteStep =>
             /\ ~ActedLinkBefore.isDeleted
             /\ ActedLinkBefore.deletedAt = NullDate
             /\ ActedLinkAfter.isDeleted
             /\ ActedLinkAfter.deletedAt # NullDate
             /\ [ActedLinkAfter EXCEPT !.isDeleted = FALSE, !.deletedAt = NullDate]
                   = ActedLinkBefore
             /\ links' \ {ActedLinkAfter} = links \ {ActedLinkBefore}
             /\ folders' = folders
       /\ IsLinkRestoreStep =>
             /\ ActedLinkBefore.isDeleted
             /\ ActedLinkAfter
                   = [ActedLinkBefore EXCEPT !.isDeleted = FALSE, !.deletedAt = NullDate]
             /\ links' \ {ActedLinkAfter} = links \ {ActedLinkBefore}
             /\ folders' = folders]_vars

\* A link has been restored while the folder it references is in the recycle
\* bin, and still references it.
C20_Witness ==
    /\ last.op \in {"restoreUrl", "restoreItemUrl"}
    /\ last.status = 200
    /\ \E l \in links : /\ l.id = last.out.id
                        /\ ~l.isDeleted
                        /\ l.deletedAt = NullDate
                        /\ \E f \in folders : f.id = l.folderId /\ f.isDeleted

\* ---------------------------------------------------------------------------
\* Rejected create requests
\* ---------------------------------------------------------------------------

\* Create requests of every kind the handler rejects, and valid ones.  The
\* first set varies the alias, the folder and the expiration date of a request
\* with a valid destination (an alias is taken, a folder missing or an instant
\* past according to the stores and the clock); the others have a missing or
\* host-less destination, a malformed alias, and an unparsable date.
RejectableCreateRequests ==
    CreateRequests({<<"example.com">>}, {<<>>, <<"a", "b", "a">>}, {NoFolder, 1},
                   {"absent"}, {NullDate, MaxTime - 1})
    \cup CreateRequests({<<>>, <<"http://">>}, {<<>>}, {NoFolder}, {"absent"}, {NullDate})
    \cup CreateRequests({<<"example.com">>}, {<<"a", "b">>}, {NoFolder}, {"absent"},
                        {NullDate})
    \cup CreateRequests({<<"example.com">>}, {<<>>}, {NoFolder}, {"absent"},
                        {InvalidDate})

NextCreate ==
    \/ \E u \in MemberUsers, req \in RejectableCreateRequests : \E rid \in Draws(req) :
            CreateShortURL(u, req, rid)
    \/ \E u \in MemberUsers :
            nextFolderId <= MaxOwnerFolders /\ CreateFolder(u, <<"a", "b">>)
    \/ \E u \in MemberUsers, fid \in 1..MaxFolders : SoftDeleteFolder(u, fid)
    \/ Tick

SpecCreate == Init /\ [][NextCreate]_vars

IsCreateStep ==
    /\ last'.seq # last.seq
    /\ last'.op = "createShortURL"

\* The reasons for which a create request is to be rejected, read off the
\* request and the stores before the request.
CreateRejectionReasons(u, req) ==
    {r \in {"destination", "alias", "taken", "folder", "expiry"} :
        \/ r = "destination" /\ ~ParsesAsURL(NormalizeURL(Trim(req.redirectURL)))
        \/ r = "alias" /\ req.customShortId # <<>> /\ ~IsValidCustomId(req.customShortId)
        \/ r = "taken" /\ req.customShortId # <<>>
                       /\ \E l \in links :
                             ToLowerCase(l.shortId) = ToLowerCase(req.customShortId)
        \/ r = "folder" /\ req.folderId # NoFolder
                        /\ ~\E f \in folders : /\ f.id = req.folderId
                                               /\ f.createdBy = u
                                               /\ ~f.isDeleted
        \/ r = "expiry" /\ req.expirationDate # NullDate
                        /\ req.expirationDate <= now}

\* C21: a create request that is rejected (missing or unparsable destination,
\* malformed alias, alias already taken, folder not found, expiration date not
\* strictly in the future) leaves the links and the folders unchanged, whether
\* or not an identifier was allocated or checked before the rejection.
C21_RejectedCreateChangesNothing ==
    [][IsCreateStep =>
          /\ CreateRejectionReasons(last'.user, last'.arg) # {} =>
                last'.status \in {400, 404, 409}
          /\ last'.status # 201 =>
                /\ links' = links
                /\ folders' = folders
                /\ nextLinkId' = nextLinkId]_vars

\* A request without an alias, for an existing folder and with an expiration
\* date equal to the current instant, was rejected at the last check while a
\* link was stored.
C21_Witness ==
    /\ last.op = "createShortURL"
    /\ last.status = 400
    /\ last.arg.customShortId = <<>>
    /\ last.arg.redirectURL = <<"example.com">>
    /\ last.arg.expirationDate = now
    /\ \E f \in folders : f.id = last.arg.folderId /\ ~f.isDeleted
    /\ links # {}

\* ---------------------------------------------------------------------------
\* The random identifier loop
\* ---------------------------------------------------------------------------

\* handleCreateShortURL up to the call of generateUniqueShortId, for a request
\* without a custom alias: the request is suspended in the loop with no
\* identifier generated yet.
BeginGenerateUniqueShortId(u, req) ==
    LET status == CreateIdStatus(links, req)
    IN  /\ req.customShortId = <<>>
        /\ status = 0 => Cardinality(inflight) < MaxInflight
        /\ inflight' = IF status = 0
                       THEN inflight \cup {[kind |-> "generate", slot |-> FreeSlot,
                                            user |-> u, req |-> req,
                                            generatedId |-> <<>>]}
                       ELSE inflight
        /\ last' = IF status = 0 THEN last
                   ELSE Response("createShortURL", u, status, req, [id |-> 0])
        /\ UNCHANGED <<links, folders, visits, now, nextLinkId, nextFolderId,
                       users, cookies>>

\* The loop with the test of exists inverted.
DrawShortIdKeepingTaken(r, id) ==
    LET exists == ExistsShortId(links, id)
        status == CreateExpiryStatus(folders, now, r.user, r.req)
    IN  /\ r.kind = "generate"
        /\ inflight' =
              IF ~exists THEN (inflight \ {r}) \cup {[r EXCEPT !.generatedId = id]}
              ELSE IF status # 0 THEN inflight \ {r}
              ELSE (inflight \ {r})
                   \cup {[kind |-> "url", slot |-> r.slot, user |-> r.user,
                          req |-> r.req, final |-> id]}
        /\ last' = IF exists /\ status # 0
                   THEN Response("createShortURL", r.user, status, r.req, [id |-> 0])
                   ELSE last
        /\ UNCHANGED <<links, folders, visits, now, nextLinkId, nextFolderId,
                       users, cookies>>

\* One iteration of the loop of generateUniqueShortId: id is what nanoid
\* returns.  When a link has it the loop goes round again; otherwise the loop
\* returns it and the handler runs on to URL.create, where it is suspended, or
\* to the rejection of the folder or the expiration date.
DrawShortId(r, id) ==
    LET exists == ExistsShortId(links, id)
        status == CreateExpiryStatus(folders, now, r.user, r.req)
    IN  /\ r.kind = "generate"
        /\ inflight' =
              IF exists THEN (inflight \ {r}) \cup {[r EXCEPT !.generatedId = id]}
              ELSE IF status # 0 THEN inflight \ {r}
              ELSE (inflight \ {r})
                   \cup {[kind |-> "url", slot |-> r.slot, user |-> r.user,
                          req |-> r.req, final |-> id]}
        /\ last' = IF ~exists /\ status # 0
                   THEN Response("createShortURL", r.user, status, r.req, [id |-> 0])
                   ELSE last
        /\ UNCHANGED <<links, folders, visits, now, nextLinkId, nextFolderId,
                       users, cookies>>

GenerateLoopRequests ==
    CreateRequests({<<"example.com">>}, {<<>>}, {NoFolder}, {"absent"}, {NullDate})

NextGenerateLoop ==
    \/ \E u \in Users, req \in GenerateLoopRequests : BeginGenerateUniqueShortId(u, req)
    \/ \E r \in inflight, id \in RandomIds : DrawShortId(r, id)
    \/ \E r \in inflight : FinishCreateShortURL(r)

\* nanoid draws every identifier of its space again and again.
FairDraws ==
    \A id \in RandomIds : WF_vars(\E r \in inflight : DrawShortId(r, id))

SpecGenerateLoop == Init /\ [][NextGenerateLoop]_vars /\ FairDraws

LoopRunning(slot) == \E r \in inflight : r.kind = "generate" /\ r.slot = slot

UnusedIdExists == \E id \in RandomIds : ~ExistsShortId(links, id)

\* C22: a create request without a custom alias draws random identifiers until
\* one is the identifier of no stored link and goes on with that one: the
\* identifier the loop returns was drawn at that step and no link had it, a
\* draw that a link has keeps the request in the loop, and under fair draws a
\* loop does not run forever while an identifier of the random space is unused.
C22_LoopReturnsAnUnusedIdAndTerminates ==
    /\ [][\A r \in inflight : r.kind = "generate" =>
             /\ \A n \in inflight' :
                   (n.slot = r.slot /\ n.kind = "url") =>
                       /\ n.final \in RandomIds
                       /\ ~ExistsShortId(links, n.final)
             /\ \A n \in inflight' :
                   (n.slot = r.slot /\ n.kind = "generate" /\ n # r) =>
                       ExistsShortId(links, n.generatedId)]_vars
    /\ \A slot \in 1..MaxInflight :
          (LoopRunning(slot) /\ UnusedIdExists)
              ~> (~LoopRunning(slot) \/ ~UnusedIdExists)

\* A request left the loop with an identifier no link has, while a link holds
\* the other identifier of the space and another request is still in the loop
\* after drawing that one.
C22_Witness ==
    /\ \E r \in inflight : r.kind = "url" /\ r.final \in RandomIds
                           /\ ~ExistsShortId(links, r.final)
    /\ \E r \in inflight : r.kind = "generate" /\ ExistsShortId(links, r.generatedId)
    /\ UnusedIdExists

\* ---------------------------------------------------------------------------
\* Links and the folders they reference, one owner, requests one at a time
\* ---------------------------------------------------------------------------

NextLifecycle ==
    \/ \E u \in MemberUsers :
            nextFolderId <= MaxOwnerFolders /\ CreateFolder(u, <<"a", "b">>)
    \/ \E u \in MemberUsers, req \in OwnerCreateRequests : \E rid \in Draws(req) :
            CreateShortURL(u, req, rid)
    \/ \E u \in MemberUsers, id \in RandomIds, req \in AssignEditRequests :
            EditUrl(u, id, req)
    \/ \E u \in MemberUsers, id \in RandomIds : SoftDeleteUrl(u, id)
    \/ \E u \in MemberUsers, id \in RandomIds : RestoreUrl(u, id)
    \/ \E u \in MemberUsers, i \in 1..MaxLinks : RestoreItemUrl(u, i)
    \/ \E u \in MemberUsers, id \in RandomIds : PermanentDeleteUrl(u, id)
    \/ \E u \in MemberUsers, fid \in 1..MaxFolders : SoftDeleteFolder(u, fid)
    \/ \E u \in MemberUsers, fid \in 1..MaxFolders : RestoreFolder(u, fid)
    \/ \E u \in MemberUsers, fid \in 1..MaxFolders : RestoreItemFolder(u, fid)
    \/ \E u \in MemberUsers, fid \in 1..MaxFolders : PermanentDeleteFolder(u, fid)
    \/ Tick

SpecLifecycle == Init /\ [][NextLifecycle]_vars

\* The non-deleted links of ls that reference a soft-deleted folder of fs.
LinksOfDeletedFolders(ls, fs) ==
    {l \in ls : ~l.isDeleted /\ \E f \in fs : f.id = l.folderId /\ f.isDeleted}

\* C23: in every state reached by completed link and folder requests of one
\* owner (create, edit, link soft-delete and restore, folder soft-delete and
\* restore, permanent-delete), no non-deleted link references a soft-deleted
\* folder.
C23_NoActiveLinkInDeletedFolder ==
    LinksOfDeletedFolders(links, folders) = {}

\* C23 as amended: a non-deleted link comes to reference a soft-deleted folder
\* only through the restore of that link, which does not look at the folder;
\* no create, edit, link soft-delete, folder soft-delete, folder restore or
\* permanent-delete request makes one.
C23_OnlyLinkRestoreRevivesIntoDeletedFolder ==
    [][\A l \in LinksOfDeletedFolders(links', folders') :
          l \notin LinksOfDeletedFolders(links, folders) =>
              /\ last'.seq # last.seq
              /\ last'.op \in {"restoreUrl", "restoreItemUrl"}
              /\ last'.status = 200
              /\ last'.out.id = l.id]_vars

\* A link was restored from the recycle bin into a folder that is itself in
\* the recycle bin, next to a link that the folder's soft-delete orphaned.
C23_Witness ==
    /\ last.op = "restoreItemUrl"
    /\ last.status = 200
    /\ \E l \in LinksOfDeletedFolders(links, folders) : l.id = last.out.id
    /\ \E l \in links : ~l.isDeleted /\ l.folderId = NoFolder

\* ---------------------------------------------------------------------------
\* A folder soft-delete that overlaps a create or an edit
\* ---------------------------------------------------------------------------

\* handleEditUrl up to, not including, urlDoc.save(): the document as loaded
\* and as edited in memory is suspended.
BeginEditUrl(u, shortId, req) ==
    LET status == EditStatus(links, folders, u, shortId, req)
        found == FindOwnedLink(links, shortId, u, FALSE)
        doc == CHOOSE l \in found : TRUE
    IN  /\ status = 200 => Cardinality(inflight) < MaxInflight
        /\ inflight' = IF status = 200
                       THEN inflight \cup {[kind |-> "edit", slot |-> FreeSlot, user |-> u,
                                            shortId |-> shortId, req |-> req,
                                            loaded |-> doc,
                                            edited |-> EditedDoc(doc, shortId, req)]}
                       ELSE inflight
        /\ last' = IF status = 200 THEN last
                   ELSE Response("editUrl", u, status, [shortId |-> shortId, body |-> req],
                                 [id |-> IF found = {} THEN 0 ELSE doc.id])
        /\ UNCHANGED <<links, folders, visits, now, nextLinkId, nextFolderId,
                       users, cookies>>

\* document.save(): the paths whose value was changed in memory are written to
\* the stored document of that _id, the other paths are left as stored.
SavedDoc(stored, loaded, edited) ==
    [f \in DOMAIN stored |-> IF edited[f] # loaded[f] THEN edited[f] ELSE stored[f]]

\* urlDoc.save() and the response of handleEditUrl; the save throws when the
\* document is gone or the unique index rejects the new shortId.
FinishEditUrl(r) ==
    LET stored == {l \in links : l.id = r.loaded.id}
        cur == CHOOSE l \in stored : TRUE
        new == SavedDoc(cur, r.loaded, r.edited)
        status == IF stored = {} THEN 500
                  ELSE IF ViolatesUniqueIndex(links \ {cur}, new) THEN 500
                  ELSE 200
    IN  /\ r.kind = "edit"
        /\ inflight' = inflight \ {r}
        /\ links' = IF status = 200 THEN (links \ {cur}) \cup {new} ELSE links
        /\ last' = Response("editUrl", r.user, status,
                            [shortId |-> r.shortId, body |-> r.req], [id |-> r.loaded.id])
        /\ UNCHANGED <<folders, visits, now, nextLinkId, nextFolderId, users, cookies>>

\* handleSoftDeleteFolder up to, not including, folder.save().
BeginSoftDeleteFolder(u, fid) ==
    LET found == FindOwnedFolder(folders, fid, u, FALSE)
        status == IF fid = 0 THEN 400 ELSE IF found = {} THEN 404 ELSE 200
    IN  /\ status = 200 => Cardinality(inflight) < MaxInflight
        /\ inflight' = IF status = 200
                       THEN inflight \cup {[kind |-> "folderDelete", slot |-> FreeSlot,
                                            user |-> u, folderId |-> fid,
                                            saved |-> FALSE]}
                       ELSE inflight
        /\ last' = IF status = 200 THEN last
                   ELSE Response("softDeleteFolder", u, status, [folderId |-> fid],
                                 [id |-> 0, orphanedUrls |-> 0])
        /\ UNCHANGED <<links, folders, visits, now, nextLinkId, nextFolderId,
                       users, cookies>>

\* folder.isDeleted = true; folder.deletedAt = new Date(); await folder.save()
SaveSoftDeleteFolder(r) ==
    /\ r.kind = "folderDelete"
    /\ ~r.saved
    /\ folders' = {IF f.id = r.folderId
                   THEN [f EXCEPT !.isDeleted = TRUE, !.deletedAt = now] ELSE f :
                   f \in folders}
    /\ inflight' = (inflight \ {r}) \cup {[r EXCEPT !.saved = TRUE]}
    /\ UNCHANGED <<links, visits, now, nextLinkId, nextFolderId, last, users, cookies>>

\* The updateMany that orphans the folder's links, and the response.
FinishSoftDeleteFolder(r) ==
    LET sel == ActiveMembers(links, r.folderId, r.user)
    IN  /\ r.kind = "folderDelete"
        /\ r.saved
        /\ links' = ClearFolder(links, sel)
        /\ inflight' = inflight \ {r}
        /\ last' = Response("softDeleteFolder", r.user, 200, [folderId |-> r.folderId],
                            [id |-> r.folderId, orphanedUrls |-> Cardinality(sel)])
        /\ UNCHANGED <<folders, visits, now, nextLinkId, nextFolderId, users, cookies>>

NextFolderRace ==
    \/ \E u \in MemberUsers :
            nextFolderId <= MaxOwnerFolders /\ CreateFolder(u, <<"a", "b">>)
    \/ \E u \in MemberUsers, req \in OwnerCreateRequests : \E rid \in Draws(req) :
            BeginCreateShortURL(u, req, rid)
    \/ \E r \in inflight : FinishCreateShortURL(r)
    \/ \E u \in MemberUsers, id \in RandomIds, req \in AssignEditRequests :
            BeginEditUrl(u, id, req)
    \/ \E r \in inflight : FinishEditUrl(r)
    \/ \E u \in MemberUsers, fid \in 1..MaxFolders : BeginSoftDeleteFolder(u, fid)
    \/ \E r \in inflight : SaveSoftDeleteFolder(r)
    \/ \E r \in inflight : FinishSoftDeleteFolder(r)

SpecFolderRace == Init /\ [][NextFolderRace]_vars

\* C24: however a folder soft-delete interleaves with a create or edit request
\* of the same owner that assigns a link to the folder, once the requests have
\* completed the assignment was rejected or the link's folder reference is
\* cleared: no non-deleted link is left referencing the soft-deleted folder.
C24_NoActiveLinkLeftInRacedFolder ==
    inflight = {} =>
        \A l \in links : \A f \in folders :
            (l.folderId = f.id /\ f.isDeleted) => l.isDeleted

\* ---------------------------------------------------------------------------
\* Account deletion that overlaps other requests of the user
\* ---------------------------------------------------------------------------

\* checkAuth: the request carries a valid session of u and User.findById finds
\* the user.
Authenticated(u) == u \in users

\* What the request body gives as password.
Passwords == {"missing", "wrong", "right"}

\* handleDeleteAccount up to, not including, URL.updateMany.
BeginDeleteAccount(u, password) ==
    LET status == IF password = "missing" THEN 400
                  ELSE IF u \notin users THEN 404
                  ELSE IF password # "right" THEN 401
                  ELSE 0
    IN  /\ Authenticated(u)
        /\ status = 0 => Cardinality(inflight) < MaxInflight
        /\ inflight' = IF status = 0
                       THEN inflight \cup {[kind |-> "deleteAccount", slot |-> FreeSlot,
                                            user |-> u, deletedAt |-> now, step |-> 1]}
                       ELSE inflight
        /\ last' = IF status = 0 THEN last
                   ELSE Response("deleteAccount", u, status, [password |-> password],
                                 [x |-> 0])
        /\ UNCHANGED <<links, folders, visits, now, nextLinkId, nextFolderId,
                       users, cookies>>

\* URL.updateMany({ createdBy, isDeleted: false }, { isDeleted: true, deletedAt })
DeleteAccountUrls(r) ==
    /\ r.kind = "deleteAccount"
    /\ r.step = 1
    /\ links' = {IF l.createdBy = r.user /\ ~l.isDeleted
                 THEN [l EXCEPT !.isDeleted = TRUE, !.deletedAt = r.deletedAt] ELSE l :
                 l \in links}
    /\ inflight' = (inflight \ {r}) \cup {[r EXCEPT !.step = 2]}
    /\ UNCHANGED <<folders, visits, now, nextLinkId, nextFolderId, last, users, cookies>>

\* Folder.updateMany({ createdBy, isDeleted: false }, { isDeleted: true, deletedAt })
DeleteAccountFolders(r) ==
    /\ r.kind = "deleteAccount"
    /\ r.step = 2
    /\ folders' = {IF f.createdBy = r.user /\ ~f.isDeleted
                   THEN [f EXCEPT !.isDeleted = TRUE, !.deletedAt = r.deletedAt] ELSE f :
                   f \in folders}
    /\ inflight' = (inflight \ {r}) \cup {[r EXCEPT !.step = 3]}
    /\ UNCHANGED <<links, visits, now, nextLinkId, nextFolderId, last, users, cookies>>

\* User.findByIdAndDelete, the two clearCookie calls and the response.
FinishDeleteAccount(r) ==
    /\ r.kind = "deleteAccount"
    /\ r.step = 3
    /\ users' = users \ {r.user}
    /\ cookies' = [cookies EXCEPT ![r.user] = NoCookies]
    /\ inflight' = inflight \ {r}
    /\ last' = Response("deleteAccount", r.user, 200, [password |-> "right"], [x |-> 0])
    /\ UNCHANGED <<links, folders, visits, now, nextLinkId, nextFolderId>>

\* handleRestoreUrl up to, not including, urlDoc.save().
BeginRestoreUrl(u, shortId) ==
    LET found == FindOwnedLink(links, shortId, u, TRUE)
        doc == CHOOSE l \in found : TRUE
        status == IF found = {} THEN 404 ELSE 200
    IN  /\ status = 200 => Cardinality(inflight) < MaxInflight
        /\ inflight' = IF status = 200
                       THEN inflight \cup
                            {[kind |-> "restore", slot |-> FreeSlot, user |-> u,
                              shortId |-> shortId, loaded |-> doc,
                              edited |-> [doc EXCEPT !.isDeleted = FALSE,
                                                     !.deletedAt = NullDate]]}
                       ELSE inflight
        /\ last' = IF status = 200 THEN last
                   ELSE Response("restoreUrl", u, status, [shortId |-> shortId], [id |-> 0])
        /\ UNCHANGED <<links, folders, visits, now, nextLinkId, nextFolderId,
                       users, cookies>>

\* urlDoc.save() and the response of handleRestoreUrl.
FinishRestoreUrl(r) ==
    LET stored == {l \in links : l.id = r.loaded.id}
        cur == CHOOSE l \in stored : TRUE
        status == IF stored = {} THEN 500 ELSE 200
    IN  /\ r.kind = "restore"
        /\ inflight' = inflight \ {r}
        /\ links' = IF status = 200
                    THEN (links \ {cur}) \cup {SavedDoc(cur, r.loaded, r.edited)}
                    ELSE links
        /\ last' = Response("restoreUrl", r.user, status, [shortId |-> r.shortId],
                            [id |-> r.loaded.id])
        /\ UNCHANGED <<folders, visits, now, nextLinkId, nextFolderId, users, cookies>>

\* The accounts of MemberUsers exist.
InitAccount ==
    /\ links = {}
    /\ folders = {}
    /\ visits = [i \in 1..MaxLinks |-> NoVisits]
    /\ now = 1
    /\ nextLinkId = 1
    /\ nextFolderId = 1
    /\ last = [op |-> "none", user |-> "none", status |-> 0, arg |-> [x |-> 0],
               out |-> [x |-> 0], seq |-> 0]
    /\ inflight = {}
    /\ users = MemberUsers
    /\ cookies = [c \in Users |-> NoCookies]

\* An edit that changes the active flag.
AccountEditRequests ==
    EditRequests({<<>>}, {<<>>}, {Absent}, {"false"}, {Absent})

AccountCreateRequests ==
    CreateRequests({<<"example.com">>}, {<<>>}, {NoFolder}, {"absent"}, {NullDate})

\* The requests of a user start while the account exists.
NextAccount ==
    \/ \E u \in MemberUsers :
            /\ Authenticated(u)
            /\ nextFolderId <= MaxOwnerFolders
            /\ CreateFolder(u, <<"a", "b">>)
    \/ \E u \in MemberUsers, req \in AccountCreateRequests : \E rid \in Draws(req) :
            Authenticated(u) /\ BeginCreateShortURL(u, req, rid)
    \/ \E r \in inflight : FinishCreateShortURL(r)
    \/ \E u \in MemberUsers, id \in RandomIds :
            Authenticated(u) /\ SoftDeleteUrl(u, id)
    \/ \E u \in MemberUsers, id \in RandomIds :
            Authenticated(u) /\ BeginRestoreUrl(u, id)
    \/ \E r \in inflight : FinishRestoreUrl(r)
    \/ \E u \in MemberUsers, id \in RandomIds, req \in AccountEditRequests :
            Authenticated(u) /\ BeginEditUrl(u, id, req)
    \/ \E r \in inflight : FinishEditUrl(r)
    \/ \E u \in MemberUsers, password \in Passwords : BeginDeleteAccount(u, password)
    \/ \E r \in inflight : DeleteAccountUrls(r)
    \/ \E r \in inflight : DeleteAccountFolders(r)
    \/ \E r \in inflight : FinishDeleteAccount(r)

SpecAccount == InitAccount /\ [][NextAccount]_vars

\* C25: once an account-deletion request has completed, no link of the deleted
\* user is non-deleted, however the deletion interleaves with create, restore
\* and edit requests of the user that were authenticated before it.
C25_DeletedAccountHasNoActiveLink ==
    \A u \in MemberUsers \ users :
        \A l \in links : l.createdBy = u => l.isDeleted

\* ---------------------------------------------------------------------------
\* PATCH /api/admin/urls/:urlId: handleUpdateUrl of the admin controller
\* ---------------------------------------------------------------------------

\* What :urlId can be: an ObjectId (id) or any other string (shortId).
AdminUrlIds ==
    [isObjectId : {TRUE}, id : 1..MaxRedirectLinks, shortId : {<<>>}]
        \cup [isObjectId : {FALSE}, id : {0}, shortId : RandomIds]

\* mongoose.Types.ObjectId.isValid(urlId) ? { _id: urlId } : { shortId: urlId }
FindUrlByIdOrShortId(ls, urlId) ==
    IF urlId.isObjectId THEN {l \in ls : l.id = urlId.id}
    ELSE {l \in ls : l.shortId = urlId.shortId}

\* The bodies sent: isActive and isDeleted absent or a boolean, redirectURL
\* absent (empty) or a string.
AdminUpdateRequests ==
    [isActive : {"absent"}, isDeleted : {"absent", "true", "false"},
     redirectURL : {<<>>}]
        \cup [isActive : {"false"}, isDeleted : {"true"},
              redirectURL : {<<"https://example.com">>}]

\* In this file URL names the mongoose model, so "new URL(redirectURL)" builds a
\* document from a string; ctorThrows is whether the installed mongoose rejects
\* that.  The document's timestamps are not part of the model.
UpdateUrl(urlId, req, ctorThrows) ==
    LET found == FindUrlByIdOrShortId(links, urlId)
        doc == CHOOSE l \in found : TRUE
        status == IF found = {} THEN 404
                  ELSE IF req.redirectURL # <<>> /\ ctorThrows THEN 400
                  ELSE 200
        d1 == IF req.isActive # "absent"
              THEN [doc EXCEPT !.isActive = ToBoolean(req.isActive)] ELSE doc
        d2 == IF req.isDeleted # "absent"
              THEN [d1 EXCEPT !.isDeleted = ToBoolean(req.isDeleted)] ELSE d1
        d3 == IF req.redirectURL # <<>>
              THEN [d2 EXCEPT !.redirectURL = req.redirectURL] ELSE d2
    IN  /\ links' = IF status = 200 THEN (links \ {doc}) \cup {d3} ELSE links
        /\ last' = Response("adminUpdateUrl", "admin", status,
                            [urlId |-> urlId, req |-> req],
                            [id |-> IF status = 200 THEN doc.id ELSE 0])
        /\ UNCHANGED <<folders, visits, now, nextLinkId, nextFolderId, inflight,
                       users, cookies>>

AdminCreateRequests ==
    CreateRequests({<<"example.com">>}, {<<>>}, {NoFolder}, {"absent"}, {NullDate})

\* The requests that write isDeleted or deletedAt, and the creates.
NextAdmin ==
    \/ \E u \in MemberUsers :
            /\ Authenticated(u)
            /\ nextFolderId <= MaxOwnerFolders
            /\ CreateFolder(u, <<"a", "b">>)
    \/ \E u \in MemberUsers, req \in AdminCreateRequests : \E rid \in Draws(req) :
            /\ Authenticated(u)
            /\ nextLinkId <= MaxRedirectLinks
            /\ CreateShortURL(u, req, rid)
    \/ \E u \in MemberUsers, id \in RandomIds : Authenticated(u) /\ SoftDeleteUrl(u, id)
    \/ \E u \in MemberUsers, id \in RandomIds : Authenticated(u) /\ RestoreUrl(u, id)
    \/ \E u \in MemberUsers, i \in 1..MaxLinks : Authenticated(u) /\ RestoreItemUrl(u, i)
    \/ \E u \in MemberUsers, fid \in 1..MaxFolders :
            Authenticated(u) /\ SoftDeleteFolder(u, fid)
    \/ \E u \in MemberUsers, fid \in 1..MaxFolders :
            Authenticated(u) /\ RestoreFolder(u, fid)
    \/ \E u \in MemberUsers, fid \in 1..MaxFolders :
            Authenticated(u) /\ RestoreItemFolder(u, fid)
    \/ \E u \in MemberUsers, password \in Passwords : BeginDeleteAccount(u, password)
    \/ \E r \in inflight : DeleteAccountUrls(r)
    \/ \E r \in inflight : DeleteAccountFolders(r)
    \/ \E r \in inflight : FinishDeleteAccount(r)
    \/ \E urlId \in AdminUrlIds, req \in AdminUpdateRequests, ctorThrows \in BOOLEAN :
            UpdateUrl(urlId, req, ctorThrows)

SpecAdmin == InitAccount /\ [][NextAdmin]_vars

\* C26: for every link and every folder, in every reachable state, isDeleted is
\* true exactly when deletedAt is set (non-null), across create, soft-delete,
\* restore, recycle-bin restore, account deletion and the admin URL update.
C26_DeletedFlagMatchesDeletedAt ==
    /\ \A l \in links : l.isDeleted <=> l.deletedAt # NullDate
    /\ \A f \in folders : f.isDeleted <=> f.deletedAt # NullDate

\* ---------------------------------------------------------------------------
\* Visit documents of links that leave the store
\* ---------------------------------------------------------------------------
PurgeCreateRequests ==
    CreateRequests({<<"example.com">>}, {<<>>}, {NoFolder}, {"absent"}, {NullDate})

\* Redirects whose visit writes settle later, and the requests that soft-delete,
\* restore and remove links.
NextPurge ==
    \/ \E u \in MemberUsers, req \in PurgeCreateRequests : \E rid \in Draws(req) :
            /\ Authenticated(u)
            /\ nextLinkId <= MaxRedirectLinks
            /\ CreateShortURL(u, req, rid)
    \/ \E u \in MemberUsers, id \in RandomIds : Authenticated(u) /\ SoftDeleteUrl(u, id)
    \/ \E u \in MemberUsers, id \in RandomIds : Authenticated(u) /\ RestoreUrl(u, id)
    \/ \E u \in MemberUsers, id \in RandomIds :
            Authenticated(u) /\ PermanentDeleteUrl(u, id)
    \/ \E u \in MemberUsers, i \in 1..MaxLinks :
            Authenticated(u) /\ PermanentDeleteItemUrl(u, i)
    \/ \E id \in RandomIds, v \in RedirectVisitors : RedirectRespond(id, v)
    \/ \E id \in RandomIds, v \in RedirectVisitors : RedirectFilteredRespond(id, v)
    \/ \E w \in inflight, ok \in BOOLEAN : VisitSaveSettles(w, ok)
    \/ \E u \in MemberUsers, password \in Passwords : BeginDeleteAccount(u, password)
    \/ \E r \in inflight : DeleteAccountUrls(r)
    \/ \E r \in inflight : DeleteAccountFolders(r)
    \/ \E r \in inflight : FinishDeleteAccount(r)

SpecPurge == InitAccount /\ [][NextPurge]_vars

\* The ids of the links that have visitHistory documents and are not in ls.
DanglingVisitIds(ls, vs) ==
    {i \in 1..MaxLinks : CountVisits(vs[i]) > 0 /\ \A l \in ls : l.id # i}

\* C27: in every reachable state, every VisitRecord refers to a link that still
\* exists in the link store, after any sequence of redirects, soft-deletes,
\* restores, permanent-deletes and account deletions.
C27_EveryVisitRefersToStoredLink ==
    DanglingVisitIds(links, visits) = {}

\* C27 as amended: no request removes a VisitRecord, and the VisitRecords of a
\* link come to refer to no stored link only because the link was permanently
\* deleted: by the permanent-delete request that removes the link they refer
\* to, or by a visit write that settles after that removal.
C27_VisitsOutliveOnlyPurgedLinks ==
    [][/\ \A i \in 1..MaxLinks, k \in VisitKinds : visits'[i][k] >= visits[i][k]
       /\ \A i \in DanglingVisitIds(links', visits') :
             IF \E l \in links : l.id = i
             THEN /\ last'.seq # last.seq
                  /\ last'.op \in {"permanentDeleteUrl", "permanentDeleteItemUrl"}
                  /\ last'.status = 200
                  /\ last'.out.id = i
             ELSE i < nextLinkId]_vars

\* A link that was redirected to has been permanently deleted and its
\* VisitRecord is still stored.
C27_Witness ==
    /\ last.op \in {"permanentDeleteUrl", "permanentDeleteItemUrl"}
    /\ last.status = 200
    /\ last.out.id \in DanglingVisitIds(links, visits)

\* ---------------------------------------------------------------------------
\* Folder soft-delete followed by folder restore
\* ---------------------------------------------------------------------------

\* Every link is created in folder 1.
FolderRestoreCreateRequests ==
    CreateRequests({<<"example.com">>}, {<<>>}, {1}, {"absent"}, {NullDate})

NextFolderRestore ==
    \/ \E u \in MemberUsers :
            nextFolderId <= MaxOwnerFolders /\ CreateFolder(u, <<"a", "b">>)
    \/ \E u \in MemberUsers, req \in FolderRestoreCreateRequests :
            \E rid \in Draws(req) : CreateShortURL(u, req, rid)
    \/ \E u \in MemberUsers, id \in RandomIds : SoftDeleteUrl(u, id)
    \/ \E u \in MemberUsers, id \in RandomIds : RestoreUrl(u, id)
    \/ \E u \in MemberUsers, fid \in 0..MaxFolders : SoftDeleteFolder(u, fid)
    \/ \E u \in MemberUsers, fid \in 0..MaxFolders : RestoreFolder(u, fid)
    \/ \E u \in MemberUsers, fid \in 0..MaxFolders : RestoreItemFolder(u, fid)
    \/ Tick

SpecFolderRestore == Init /\ [][NextFolderRestore]_vars

\* The step is a folder restore request, by either route.
IsFolderRestoreStep ==
    /\ last'.seq # last.seq
    /\ last'.op \in {"restoreFolder", "restoreItemFolder"}

\* C28: restoring a soft-deleted folder changes no link; when the restore follows
\* the soft-delete of the folder, the links whose folder reference the soft-delete
\* cleared still have no folder and the restored folder has no member link.
C28_FolderRestoreBringsBackNoLink ==
    [][IsFolderRestoreStep =>
          /\ links' = links
          /\ (/\ last'.status = 200
              /\ last.op = "softDeleteFolder"
              /\ last.status = 200
              /\ last.out.id = last'.out.id)
             => /\ \E f \in folders' : f.id = last'.out.id /\ ~f.isDeleted
                /\ ActiveMembers(links', last'.out.id, last'.user) = {}]_vars

\* A folder has been restored and a link that was created in it and orphaned by
\* the folder's soft-delete is stored without a folder.
C28_Witness ==
    /\ last.op \in {"restoreFolder", "restoreItemFolder"}
    /\ last.status = 200
    /\ \E f \in folders : f.id = last.out.id /\ ~f.isDeleted
    /\ \E l \in links : ~l.isDeleted /\ l.folderId = NoFolder /\ l.createdBy = last.user
    /\ ActiveMembers(links, last.out.id, last.user) = {}

\* ---------------------------------------------------------------------------
\* Owner requests that name a soft-deleted link
\* ---------------------------------------------------------------------------
TrashedCreateRequests ==
    CreateRequests({<<"example.com">>}, {<<>>}, {NoFolder, 1}, {"absent"}, {NullDate})

\* An edit that sends the destination again and one that clears the active flag.
TrashedEditRequests ==
    EditRequests({<<"example.com">>}, {<<>>}, {Absent}, {"absent", "false"}, {Absent})

\* A toggle body without isActive, and with either value.
ToggleBodies == {"absent", "true", "false"}

NextTrashed ==
    \/ \E u \in MemberUsers :
            nextFolderId <= MaxOwnerFolders /\ CreateFolder(u, <<"a", "b">>)
    \/ \E u \in MemberUsers, req \in TrashedCreateRequests : \E rid \in Draws(req) :
            nextLinkId <= MaxRedirectLinks /\ CreateShortURL(u, req, rid)
    \/ \E u \in MemberUsers, id \in RandomIds, req \in TrashedEditRequests :
            EditUrl(u, id, req)
    \/ \E u \in MemberUsers, id \in RandomIds, a \in ToggleBodies :
            ToggleUrlStatus(u, id, a)
    \/ \E u \in MemberUsers, id \in RandomIds : SoftDeleteUrl(u, id)
    \/ \E u \in MemberUsers, id \in RandomIds : RestoreUrl(u, id)
    \/ \E u \in MemberUsers, id \in RandomIds : PermanentDeleteUrl(u, id)
    \/ \E u \in MemberUsers, i \in 1..MaxLinks : RestoreItemUrl(u, i)
    \/ \E u \in MemberUsers, i \in 1..MaxLinks : PermanentDeleteItemUrl(u, i)
    \/ \E u \in MemberUsers, fid \in 1..MaxFolders : SoftDeleteFolder(u, fid)
    \/ \E u \in MemberUsers, fid \in 1..MaxFolders, ids \in OwnerUrlIdSets :
            RemoveUrlsFromFolder(u, fid, ids)
    \/ Tick

SpecTrashed == Init /\ [][NextTrashed]_vars

\* The step is an edit, toggle or soft-delete request of the owner of a link that
\* is soft-deleted when the request arrives.
IsRequestOnTrashedLink ==
    /\ last'.seq # last.seq
    /\ last'.op \in {"editUrl", "toggleUrlStatus", "softDeleteUrl"}
    /\ \E l \in links : /\ l.shortId = last'.arg.shortId
                        /\ l.createdBy = last'.user
                        /\ l.isDeleted

\* The requests that act on a soft-deleted link.
TrashOps == {"restoreUrl", "restoreItemUrl", "permanentDeleteUrl", "permanentDeleteItemUrl"}

\* A soft-deleted link is changed or removed only by a restore or a
\* permanent-delete of that link.
OnlyTrashOpsChangeTrashedLinks ==
    \A l \in links :
        (l.isDeleted /\ l \notin links') =>
            /\ last'.seq # last.seq
            /\ last'.op \in TrashOps
            /\ last'.status = 200
            /\ last'.out.id = l.id

\* C29: every owner request to edit, toggle the active status of, or soft-delete
\* a link that is already soft-deleted answers 404 and leaves the link unchanged,
\* including its deletedAt; only restore and permanent-delete act on a
\* soft-deleted link.
C29_TrashedLinkAnswers404 ==
    [][/\ IsRequestOnTrashedLink => (last'.status = 404 /\ links' = links)
       /\ OnlyTrashOpsChangeTrashedLinks]_vars

\* C29 as amended: such a request leaves the link unchanged and answers 404,
\* except that a toggle request without an isActive field answers 400; only
\* restore and permanent-delete act on a soft-deleted link.
C29_TrashedLinkIsLeftUnchanged ==
    [][/\ IsRequestOnTrashedLink =>
             /\ links' = links
             /\ last'.status =
                    IF last'.op = "toggleUrlStatus" /\ last'.arg.isActive = "absent"
                    THEN 400 ELSE 404
       /\ OnlyTrashOpsChangeTrashedLinks]_vars

\* An edit, toggle or soft-delete of a link that is in the recycle bin has been
\* answered 404.
C29_Witness ==
    /\ last.op \in {"editUrl", "toggleUrlStatus", "softDeleteUrl"}
    /\ last.status = 404
    /\ \E l \in links : /\ l.shortId = last.arg.shortId
                        /\ l.createdBy = last.user
                        /\ l.isDeleted
                        /\ l.deletedAt < now

\* ---------------------------------------------------------------------------
\* Redirect requests that are refused
\* ---------------------------------------------------------------------------

\* The step is a redirect request answered with 400, 404 or 410.
IsRefusedRedirectStep ==
    IsRedirectStep /\ last'.status \in {400, 404, 410}

====
